---- MODULE Spec2Model ----
(***************************************************************************)
(* Verification model of the wellfound-bot repository.  One subsystem per  *)
(* program part: the Luma registration bot, the browser-session utility,   *)
(* the Medicare carrier PDF grabbers and the medicare.gov batch scraper,   *)
(* the WA registry scraper and its JSON files, the database pool, the      *)
(* Google search pipeline and its validator, plan-ID normalization, the    *)
(* form filler, the free-event check, the document categorizers, the       *)
(* registry search and annual-report capture, the Google Calendar tab, the *)
(* loops that wait on page state and the Stage 2 downloads.  Each          *)
(* subsystem has its own variables and its own specification; the          *)
(* variables of the other subsystems stay parked.                          *)
(***************************************************************************)
EXTENDS Integers, Sequences, FiniteSets, TLC

VARIABLES
    \* ---- Luma bot: luma_bot/register_events.py ----
    ledger,         \* db["events"] of registered_events.json, a list of URLs
    calls,          \* number of handle_one_event calls made so far
    lastCall,       \* outcome of the most recent handle_one_event call
    prevCall,       \* outcome of the call before it
    fillSucceeded,  \* URLs for which fill_form has returned True
    \* ---- Browser session: utils/driver_session.py ----
    env,            \* the FIREFOX_PROFILE_* variables read at import
    disk,           \* the profile directories that exist on disk
    sess,           \* the current (or last) start_driver scope
    sessions,       \* number of start_driver scopes entered so far
    sessPrev,       \* what is remembered of the session before
    \* ---- Range-driven batch loops: carrier grabbers, ccfs_lookup.py ----
    gKind,          \* which script runs
    gRows,          \* N: rows loaded from the input CSV
    gStart,         \* --start-n as given
    gStop,          \* --stop-n as given: [given, val]; not given is None
    gState,         \* "start", "running", "done", "aborted", "rejected"
    gSlice,         \* 1-based row numbers the loop iterates over
    gPos,           \* position of the loop in gSlice
    gProcessed,     \* row numbers whose loop body has started, in order
    gLast,          \* what happened in the last loop body
    \* ---- medicare_scraper.py: one browser session per (ZIP, plan type) ----
    bZips,          \* number of rows of the ZIP code file
    bNext,          \* index of the next (ZIP, plan type) pair
    bPhase,         \* "idle" between pairs, "in_session", "end", "crashed"
    bOpen,          \* browser sessions currently open
    bAttempted,     \* pairs attempted so far, in order
    bOutcomes,      \* how each attempted pair ended
    \* ---- Per-plan document downloads of the carrier grabbers ----
    dKind,          \* which grabber runs
    files,          \* the plan's output folder: file name -> state
    dFiles0,        \* the folder as it was when the current run started
    dOffered,       \* the documents the run iterates over, in order
    dPos,           \* position of the document loop
    dRequested,     \* documents a download request was issued for, this run
    dRuns,          \* runs of the grabber over this plan so far
    \* ==== later subsystems ====
    \* ---- WA registry: the UBI's JSON file (ccfs_lookup.py, pdf_to_business_json.py) ----
    jFile,          \* business_json/{ubi}.json as it is on disk
    jPre,           \* the file as it was before the last operation
    jOp,            \* the last operation and its inputs
    pdfStored,      \* business_pdf/{ubi}/annual_report.pdf exists
    jOps,           \* operations run so far
    \* ---- Database pool: utils/db_utils.py ----
    pImport,        \* the import-time liveness check: pending or how it ended
    pUsed,          \* connections currently checked out of postgres_pool
    pHolding,       \* per operation: callers between getconn and the finally block
    pLast,          \* the last pool event
    \* ---- Google pipeline: pdf_grabber.py (Stage 1), filter_and_download.py (Stage 2) ----
    hState,         \* Stage 1: "running", "failed" (exception left main), "done"
    hCalls,         \* api_collect_candidates calls made so far
    hAttempts,      \* requests issued for the query of the last run_search call
    hLastStatus,    \* HTTP status of the last response
    hRows,          \* rows of the candidates CSV, in file order
    hStage2,        \* Stage 2 over that CSV: "not_run", "ok", "KeyError"
    \* ---- medicare_scraper.py: rows of plan_links.csv ----
    plHeader,       \* plan_links.csv exists (its header row is written)
    plRows,         \* data rows of plan_links.csv, in file order
    plRuns,         \* run_zipcode_plan calls made so far
    plLast,         \* how the last run_zipcode_plan call ended
    plScraped,      \* every (ZIP, plan) whose detail page was scraped
    \* ---- pdf_validator.py: score_pdf ----
    vIn,            \* what score_pdf's tests find in its arguments
    vOut,           \* (label, confidence) returned by score_pdf, once called
    \* ---- normalize_plan_id (humana_pdf_direct.py, google_them/pdf_grabber.py) ----
    nModule,        \* which module's normalize_plan_id is called
    nIn,            \* the plan_id argument, as a sequence of characters
    nOut,           \* the call's outcome: not called, returned value, or raised
    \* ---- luma-bot/form_filler.py: fill_form ----
    fForm,          \* the form's input, textarea and select elements, in DOM order
    fProfile,       \* PROFILE: profile key -> value ("" when empty)
    fOut,           \* the outcome of the fill_form call, once made
    \* ---- register_events.py: is_free_event_on_page ----
    ePage,          \* the event page and how the browser answers the lookups
    eOut,           \* what is_free_event_on_page returned, once called
    \* ---- document categorizers (uhc_pdf_grabber.py, google_them/pdf_grabber.py) ----
    cUrl,           \* the URL given to categorize_link, as words
    cText,          \* the link text, as words
    cFn,            \* which categorizer was called
    cOut,           \* the label it returned, once called
    \* ---- wa_corps/ccfs_lookup.py: the search of one UBI ----
    sDone,          \* how many UBIs of the slice main has processed
    sLast,          \* the steps and the result of the last UBI
    sPrev,          \* the same for the UBI before it
    \* ---- wa_corps/ccfs_lookup.py: save_latest_annual_report ----
    aFiles,         \* the PDFs in ~/Downloads with their modification times
    aClock,         \* the time
    aPhase,         \* idle, polling or done
    aClickAt,       \* the time just before the last download click
    aPolls,         \* empty polls so far
    aPending,       \* a download is in flight
    aTaken,         \* the PDF moved to annual_report.pdf
    aRuns,          \* captures started
    \* ---- luma-bot/calendar_clicker.py: the Google Calendar tab ----
    tTabs,          \* driver.window_handles
    tFocus,         \* the window the driver is switched to
    tPc,            \* where add_to_google_calendar_for_city stands
    tBefore,        \* the tabs open when it was called
    tOld,           \* old_handles
    tPending,       \* the browser still has a tab to open
    tRounds,        \* rounds _wait_for_new_tab has spent
    tRet,           \* the message returned
    tCalls,         \* calls so far
    \* ---- loops that wait on page state ----
    wLoop,          \* which loop runs
    wPc,            \* running or done
    wRounds,        \* rounds of robust_scroll_to_bottom so far
    wSame,          \* rounds_same
    wLast,          \* last_height
    wPage,          \* the result page scrape_all_plan_details is on
    wPages,         \* how many result pages the site has
    wEntered,       \* loops entered so far
    \* ---- google_them/filter_and_download.py: download_pdf ----
    qFiles,         \* the destination files on disk
    qDone,          \* the paths whose download completed
    qLast,          \* the last download_pdf call
    qCalls,         \* download_pdf calls so far
    \* ---- luma-bot/form_filler.py: map_field ----
    mLabel,         \* the label of a form element
    mKey            \* the profile key map_field returned, once called

lumaVars == <<ledger, calls, lastCall, prevCall, fillSucceeded>>

drvVars == <<env, disk, sess, sessions, sessPrev>>

grabVars == <<gKind, gRows, gStart, gStop, gState, gSlice, gPos, gProcessed,
              gLast>>

batchVars == <<bZips, bNext, bPhase, bOpen, bAttempted, bOutcomes>>

dlVars == <<dKind, files, dFiles0, dOffered, dPos, dRequested, dRuns>>

regVars == <<jFile, jPre, jOp, pdfStored, jOps>>

poolVars == <<pImport, pUsed, pHolding, pLast>>

harvestVars == <<hState, hCalls, hAttempts, hLastStatus, hRows, hStage2>>

linkVars == <<plHeader, plRows, plRuns, plLast, plScraped>>

scoreVars == <<vIn, vOut>>

normVars == <<nModule, nIn, nOut>>

formVars == <<fForm, fProfile, fOut>>

freeVars == <<ePage, eOut>>

catVars == <<cUrl, cText, cFn, cOut>>

searchVars == <<sDone, sLast, sPrev>>

captureVars == <<aFiles, aClock, aPhase, aClickAt, aPolls, aPending, aTaken,
                 aRuns>>

calVars == <<tTabs, tFocus, tPc, tBefore, tOld, tPending, tRounds, tRet,
             tCalls>>

waitVars == <<wLoop, wPc, wRounds, wSame, wLast, wPage, wPages, wEntered>>

stage2Vars == <<qFiles, qDone, qLast, qCalls>>

mapVars == <<mLabel, mKey>>

\* The variables of the subsystems declared after the downloads.
laterVars == <<regVars, poolVars, harvestVars, linkVars, scoreVars, normVars,
               formVars, freeVars, catVars, searchVars, captureVars, calVars,
               waitVars, stage2Vars, mapVars>>

\* The variables of the first five subsystems.
earlyVars == <<lumaVars, drvVars, grabVars, batchVars, dlVars>>

\* Everything outside the WA registry.
outsideRegistry == <<earlyVars, poolVars, harvestVars, linkVars, scoreVars,
                     normVars, formVars, freeVars, catVars, searchVars,
                     captureVars, calVars, waitVars, stage2Vars, mapVars>>

\* Everything outside the Database pool.
outsidePool == <<earlyVars, regVars, harvestVars, linkVars, scoreVars,
                 normVars, formVars, freeVars, catVars, searchVars,
                 captureVars, calVars, waitVars, stage2Vars, mapVars>>

\* Everything outside the Google pipeline.
outsideHarvest == <<earlyVars, regVars, poolVars, linkVars, scoreVars,
                    normVars, formVars, freeVars, catVars, searchVars,
                    captureVars, calVars, waitVars, stage2Vars, mapVars>>

\* Everything outside the medicare_scraper.py.
outsidePlanLinks == <<earlyVars, regVars, poolVars, harvestVars, scoreVars,
                      normVars, formVars, freeVars, catVars, searchVars,
                      captureVars, calVars, waitVars, stage2Vars, mapVars>>

\* Everything outside the pdf_validator.py.
outsideValidator == <<earlyVars, regVars, poolVars, harvestVars, linkVars,
                      normVars, formVars, freeVars, catVars, searchVars,
                      captureVars, calVars, waitVars, stage2Vars, mapVars>>

\* Everything outside the normalize_plan_id (humana_pdf_direct.py, google_them/pdf_grabber.py).
outsideNormalize == <<earlyVars, regVars, poolVars, harvestVars, linkVars,
                      scoreVars, formVars, freeVars, catVars, searchVars,
                      captureVars, calVars, waitVars, stage2Vars, mapVars>>

\* Everything outside the luma-bot/form_filler.py.
outsideForm == <<earlyVars, regVars, poolVars, harvestVars, linkVars,
                 scoreVars, normVars, freeVars, catVars, searchVars,
                 captureVars, calVars, waitVars, stage2Vars, mapVars>>

\* Everything outside the register_events.py.
outsideFreeCheck == <<earlyVars, regVars, poolVars, harvestVars, linkVars,
                      scoreVars, normVars, formVars, catVars, searchVars,
                      captureVars, calVars, waitVars, stage2Vars, mapVars>>

\* Everything outside the document categorizers (uhc_pdf_grabber.py, google_them/pdf_grabber.py).
outsideCategorize == <<earlyVars, regVars, poolVars, harvestVars, linkVars,
                       scoreVars, normVars, formVars, freeVars, searchVars,
                       captureVars, calVars, waitVars, stage2Vars, mapVars>>

\* Everything outside the wa_corps/ccfs_lookup.py.
outsideSearch == <<earlyVars, regVars, poolVars, harvestVars, linkVars,
                   scoreVars, normVars, formVars, freeVars, catVars,
                   captureVars, calVars, waitVars, stage2Vars, mapVars>>

\* Everything outside the wa_corps/ccfs_lookup.py.
outsideCapture == <<earlyVars, regVars, poolVars, harvestVars, linkVars,
                    scoreVars, normVars, formVars, freeVars, catVars,
                    searchVars, calVars, waitVars, stage2Vars, mapVars>>

\* Everything outside the luma-bot/calendar_clicker.py.
outsideCalendar == <<earlyVars, regVars, poolVars, harvestVars, linkVars,
                     scoreVars, normVars, formVars, freeVars, catVars,
                     searchVars, captureVars, waitVars, stage2Vars, mapVars>>

\* Everything outside the loops that wait on page state.
outsideWaits == <<earlyVars, regVars, poolVars, harvestVars, linkVars,
                  scoreVars, normVars, formVars, freeVars, catVars,
                  searchVars, captureVars, calVars, stage2Vars, mapVars>>

\* Everything outside the google_them/filter_and_download.py.
outsideStage2Dl == <<earlyVars, regVars, poolVars, harvestVars, linkVars,
                     scoreVars, normVars, formVars, freeVars, catVars,
                     searchVars, captureVars, calVars, waitVars, mapVars>>

\* Everything outside the luma-bot/form_filler.py.
outsideMapField == <<earlyVars, regVars, poolVars, harvestVars, linkVars,
                     scoreVars, normVars, formVars, freeVars, catVars,
                     searchVars, captureVars, calVars, waitVars, stage2Vars>>

vars == <<earlyVars, laterVars>>

(***************************************************************************)
(* Helpers                                                                 *)
(***************************************************************************)
Range(s) == {s[i] : i \in 1..Len(s)}

Count(s, x) == Cardinality({i \in 1..Len(s) : s[i] = x})

IsPrefix(s, t) == Len(s) <= Len(t) /\ \A i \in 1..Len(s) : s[i] = t[i]

(***************************************************************************)
(* Luma bot                                                                *)
(***************************************************************************)
MaxCalls == 3

Urls == {"u1", "u2"}

FillOutcomes == {"ok", "fail", "raise"}

CalOutcomes == {"ok", "fail", "raise"}

NoCall == [url |-> "none", ok |-> FALSE, raised |-> FALSE, msg |-> "none",
           steps |-> <<>>, fill |-> "none", cal |-> "none",
           free |-> FALSE, cta |-> FALSE, form |-> FALSE]

\* already_registered(url): url in db["events"]
already_registered(url, db) == url \in Range(db)

\* Mutant: the new entry is never saved to the ledger file.
mark_registered_NotSaved(url, db) == db

\* mark_registered(url): append unless present, then save
mark_registered(url, db) == IF url \in Range(db) THEN db ELSE Append(db, url)

\* Mutant: the result of fill_form is ignored.
FillReportedSuccess_Ignored(fill) == TRUE

\* `ok = fill_form(driver); if not ok: return False, ...`
FillReportedSuccess(fill) == fill = "ok"

\* Mutant: the answer of is_free_event_on_page is ignored.
ClassifiedFree_Ignored(free) == TRUE

\* `if not is_free_event_on_page(driver): ... return False, "Non-free event"`
ClassifiedFree(free) == free

\* handle_one_event(driver, event_url, city, logger): the steps taken, the
\* returned pair (or the exception that escapes) and the ledger afterwards.
\* free, cta, form, fill, cal are what the page and the helpers answer.
handle_one_event(url, db, free, cta, form, fill, cal) ==
    IF already_registered(url, db)
    THEN [url |-> url, ok |-> TRUE, raised |-> FALSE,
          msg |-> "Already registered (skipped).",
          steps |-> <<"already_registered">>,
          fill |-> "none", cal |-> "none", db |-> db]
    ELSE IF ~ClassifiedFree(free)
    THEN [url |-> url, ok |-> FALSE, raised |-> FALSE, msg |-> "Non-free event",
          steps |-> <<"already_registered", "get", "is_free">>,
          fill |-> "none", cal |-> "none", db |-> db]
    ELSE IF ~cta
    THEN [url |-> url, ok |-> FALSE, raised |-> FALSE,
          msg |-> "Register CTA not found",
          steps |-> <<"already_registered", "get", "is_free", "open_cta">>,
          fill |-> "none", cal |-> "none", db |-> db]
    ELSE IF ~form
    THEN [url |-> url, ok |-> FALSE, raised |-> FALSE,
          msg |-> "Form did not appear",
          steps |-> <<"already_registered", "get", "is_free", "open_cta",
                      "wait_form">>,
          fill |-> "none", cal |-> "none", db |-> db]
    ELSE IF fill = "raise"
    THEN [url |-> url, ok |-> FALSE, raised |-> FALSE,
          msg |-> "Form filler error",
          steps |-> <<"already_registered", "get", "is_free", "open_cta",
                      "wait_form", "fill_form">>,
          fill |-> fill, cal |-> "none", db |-> db]
    ELSE IF ~FillReportedSuccess(fill)
    THEN [url |-> url, ok |-> FALSE, raised |-> FALSE,
          msg |-> "Form fill failed",
          steps |-> <<"already_registered", "get", "is_free", "open_cta",
                      "wait_form", "fill_form">>,
          fill |-> fill, cal |-> "none", db |-> db]
    ELSE IF cal = "raise"
    \* add_to_google_calendar_for_city is called outside any try block: an
    \* error raised in it leaves handle_one_event before mark_registered.
    THEN [url |-> url, ok |-> FALSE, raised |-> TRUE, msg |-> "exception",
          steps |-> <<"already_registered", "get", "is_free", "open_cta",
                      "wait_form", "fill_form", "calendar">>,
          fill |-> fill, cal |-> cal, db |-> db]
    ELSE [url |-> url, ok |-> TRUE, raised |-> FALSE, msg |-> "Registered",
          steps |-> <<"already_registered", "get", "is_free", "open_cta",
                      "wait_form", "fill_form", "calendar", "mark_registered">>,
          fill |-> fill, cal |-> cal, db |-> mark_registered(url, db)]

ParkedLuma ==
    /\ ledger = <<>>
    /\ calls = 0
    /\ lastCall = NoCall
    /\ prevCall = NoCall
    /\ fillSucceeded = {}

InitLuma ==
    /\ ledger = <<>>
    /\ calls = 0
    /\ lastCall = NoCall
    /\ prevCall = NoCall
    /\ fillSucceeded = {}

\* One iteration of process_city's loop: a call of handle_one_event.
HandleOneEvent ==
    /\ calls < MaxCalls
    /\ \E url \in Urls, free \in BOOLEAN, cta \in BOOLEAN, form \in BOOLEAN,
          fill \in FillOutcomes, cal \in CalOutcomes :
          LET r == handle_one_event(url, ledger, free, cta, form, fill, cal)
          IN  /\ ledger' = r.db
              /\ lastCall' = [url |-> r.url, ok |-> r.ok, raised |-> r.raised,
                              msg |-> r.msg, steps |-> r.steps,
                              fill |-> r.fill, cal |-> r.cal,
                              free |-> free, cta |-> cta, form |-> form]
              /\ prevCall' = lastCall
              /\ fillSucceeded' = IF r.fill = "ok"
                                  THEN fillSucceeded \cup {url}
                                  ELSE fillSucceeded
    /\ calls' = calls + 1
    /\ UNCHANGED <<drvVars, grabVars, batchVars, dlVars, laterVars>>

NextLuma == HandleOneEvent

\* C1: when handle_one_event is called twice in a row for the same URL and
\* the first call ended as "Registered", the second call returns "Already
\* registered (skipped)." after the ledger check alone (no page load, price
\* check, CTA click or fill_form), and the ledger holds the URL exactly once.
C1_SecondCallShortCircuits ==
    (prevCall.msg = "Registered" /\ lastCall.url = prevCall.url) =>
        /\ lastCall.ok /\ ~lastCall.raised
        /\ lastCall.msg = "Already registered (skipped)."
        /\ lastCall.steps = <<"already_registered">>
        /\ lastCall.fill = "none"
        /\ Count(ledger, lastCall.url) = 1

C1_Witness ==
    /\ prevCall.msg = "Registered"
    /\ lastCall.url = prevCall.url
    /\ lastCall.msg = "Already registered (skipped)."

\* C2: a URL is in the ledger only if fill_form reported success for it in
\* an earlier call; a call that fails (returns False or raises) leaves the
\* ledger unchanged; no call removes or duplicates an entry (the old ledger
\* is a prefix of the new one).
C2_LedgerGrowsOnlyAfterFillSuccess ==
    /\ [](/\ Range(ledger) \subseteq fillSucceeded
          /\ \A u \in Urls : Count(ledger, u) <= 1)
    /\ [][/\ IsPrefix(ledger, ledger')
          /\ (~lastCall'.ok => ledger' = ledger)]_vars

C2_Witness ==
    /\ lastCall.msg = "Form fill failed"
    /\ prevCall.msg = "Registered"
    /\ ledger = <<prevCall.url>>
    /\ lastCall.url # prevCall.url

\* C3 (as claimed): once fill_form has reported success, the URL is in the
\* ledger and the call reports success, whatever the calendar step did
\* (success, returned failure, or a raised error).
C3_CalendarNeverBlocksRegistration ==
    lastCall.fill = "ok" =>
        /\ lastCall.url \in Range(ledger)
        /\ lastCall.ok

\* The order of the steps of one handle_one_event call.
StepOrder == <<"already_registered", "get", "is_free", "open_cta", "wait_form",
               "fill_form", "calendar", "mark_registered">>

\* C22: the steps of one handle_one_event call are an initial part of the
\* order ledger check, page visit, price check, CTA click, form wait, form
\* fill (then calendar and ledger write); for an event the price check
\* classified as not free no CTA is clicked, no form is awaited and fill_form
\* is not invoked; and fill_form is invoked only after the CTA was clicked
\* and a form element appeared.
C22_StepsInOrderAndGated ==
    /\ IsPrefix(lastCall.steps, StepOrder)
    /\ ("is_free" \in Range(lastCall.steps) /\ ~lastCall.free) =>
           /\ lastCall.steps = <<"already_registered", "get", "is_free">>
           /\ lastCall.fill = "none"
           /\ ~lastCall.ok
    /\ "fill_form" \in Range(lastCall.steps) =>
           /\ lastCall.free /\ lastCall.cta /\ lastCall.form
           /\ "open_cta" \in Range(lastCall.steps)
           /\ "wait_form" \in Range(lastCall.steps)

\* A paid event whose page does offer a CTA and a form is left after the
\* price check, right after an event that was filled and registered.
C22_Witness ==
    /\ lastCall.msg = "Non-free event"
    /\ lastCall.cta /\ lastCall.form
    /\ "fill_form" \in Range(prevCall.steps)
    /\ prevCall.msg = "Registered"

(***************************************************************************)
(* Browser session: utils/driver_session.py                                *)
(***************************************************************************)
MaxSessions == 2

MaxTemps == 2

\* persist_profile is None, True or False; cenv is CHROME_PROFILE_DIR.
None == "None"

\* An absent (None or empty, both falsy) profile name or directory.
NoName == [prefix |-> "", rest |-> ""]

NoDir == [parent |-> "", prefix |-> "", rest |-> ""]

\* A directory: where it lives, its name split into the prefix that
\* `chosen_dir.name.startswith("ff-profile-")` looks at, and the rest.
Dir(parent, prefix, rest) == [parent |-> parent, prefix |-> prefix, rest |-> rest]

\* Profile names and explicit directories a caller may pass; a user is free
\* to pick a name that begins with "ff-profile-".
ProfileNames == {[prefix |-> "ff-profile-", rest |-> "keep"]}

ProfileDirs == {[prefix |-> "ff-profile-", rest |-> "mine"]}

EnvName == [prefix |-> "", rest |-> "envprof"]

EnvDir == [prefix |-> "", rest |-> "envdir"]

\* Path(profile_dir), _ENV_PROFILE_BASE / name, tempfile.mkdtemp(prefix=...)
ExplicitDir(d) == Dir("explicit", d.prefix, d.rest)

NamedDir(n) == Dir(".selenium-profiles", n.prefix, n.rest)

TempDir(k) == Dir("tmp", "ff-profile-", ToString(k))

ChromeTempDir(k) == Dir("tmp", "chrome-prof-", ToString(k))

ChromeNamedDir(n) == Dir(".selenium-profiles/chrome", n.prefix, n.rest)

ChromeEnvDir == Dir("explicit", "", "chromeenv")

ChromeDefaultName == [prefix |-> "", rest |-> "luma_bot_chrome"]

\* mkdtemp returns a name that does not exist yet: the first free one.
FreshTemp(d) == TempDir(CHOOSE k \in 1..MaxTemps :
                    /\ TempDir(k) \notin d
                    /\ \A j \in 1..(k - 1) : TempDir(j) \in d)

FreshChromeTemp(d) == ChromeTempDir(CHOOSE k \in 1..MaxTemps :
                    /\ ChromeTempDir(k) \notin d
                    /\ \A j \in 1..(k - 1) : ChromeTempDir(j) \in d)

CanMkdtemp(d) == /\ \E k \in 1..MaxTemps : TempDir(k) \notin d
                 /\ \E k \in 1..MaxTemps : ChromeTempDir(k) \notin d

\* Mutant: persist_profile=False is honoured for a named or explicit dir.
ArgPersistApplied_ForceOff(pp, pers) == IF pp = None THEN pers ELSE pp = "True"

\* `if arg_persist is not None: if arg_persist: is_persistent = True
\*  else: ... pass` -- a force-off is ignored.
ArgPersistApplied(pp, pers) == IF pp = "True" THEN TRUE ELSE pers

\* _resolve_profile(persist_profile, profile_name, profile_dir) on disk d:
\* (profile_path, is_persistent, is_temporary), and whether mkdtemp ran.
resolve_profile(pp, pn, pd, e, d) ==
    LET name == IF pn # NoName THEN pn ELSE e.name
        chosen == IF pd # NoName THEN ExplicitDir(pd)
                  ELSE IF e.dir # NoName THEN ExplicitDir(e.dir)
                  ELSE IF name # NoName THEN NamedDir(name)
                  ELSE FreshTemp(d)
        made == pd = NoName /\ e.dir = NoName /\ name = NoName
        pers0 == ~made
        pers1 == ArgPersistApplied(pp, pers0)
        pers2 == IF e.persist THEN TRUE ELSE pers1
    IN  [path |-> chosen, is_persistent |-> pers2,
         is_temporary |-> ~pers2 /\ chosen.prefix = "ff-profile-",
         mkdtemp |-> made]

\* The Chrome branch's user-data-dir before the write test.
chrome_data_dir(pn, pd, e) ==
    IF pd # NoName THEN ExplicitDir(pd)
    ELSE IF e.chromeDir THEN ChromeEnvDir
    ELSE ChromeNamedDir(IF pn # NoName THEN pn
                        ELSE IF e.name # NoName THEN e.name
                        ELSE ChromeDefaultName)

\* The finally block's `if not is_persistent and is_temporary: rmtree(...)`.
AfterCleanup(d, r) ==
    IF ~r.is_persistent /\ r.is_temporary THEN d \ {r.path} ELSE d

NoSession == [phase |-> "none", pp |-> None, pn |-> NoName, pd |-> NoName,
              engine |-> "none", path |-> NoDir, is_persistent |-> FALSE,
              is_temporary |-> FALSE, fresh |-> FALSE, dataDir |-> NoDir,
              temps |-> {}, browser |-> "none", exit |-> "none"]

\* Persistence was requested for session x (persist_profile=True or
\* FIREFOX_PROFILE_PERSIST) and neither a profile name nor a directory was
\* given, as argument or in the environment.
PersistRequestedUnnamed(x) ==
    /\ x.phase # "none"
    /\ (x.pp = "True" \/ env.persist)
    /\ x.pn = NoName /\ x.pd = NoName
    /\ env.name = NoName /\ env.dir = NoName

\* What is remembered of the session before: whether it asked for
\* persistence without naming a profile, and if so the profile directory it
\* resolved to.
ProfileOf(x) ==
    [persistUnnamed |-> PersistRequestedUnnamed(x),
     path |-> IF PersistRequestedUnnamed(x) THEN x.path ELSE NoDir]

\* No FIREFOX_PROFILE_* / CHROME_PROFILE_DIR variable set, and each one set
\* alone.
EnvUnset == [persist |-> FALSE, dir |-> NoName, name |-> NoName,
             chromeDir |-> FALSE]

EnvChoices == {EnvUnset,
               [EnvUnset EXCEPT !.persist = TRUE],
               [EnvUnset EXCEPT !.dir = EnvDir],
               [EnvUnset EXCEPT !.name = EnvName],
               [EnvUnset EXCEPT !.chromeDir = TRUE]}

\* What the launch meets: the engine (SELENIUM_BROWSER), whether the Chrome
\* data dir passes the write test, whether the webdriver constructor returns.
Launches == [engine : {"firefox"}, writable : {TRUE}, launched : BOOLEAN]
            \cup [engine : {"chrome"}, writable : BOOLEAN, launched : BOOLEAN]

ParkedDrv ==
    /\ env = EnvUnset
    /\ disk = {}
    /\ sess = NoSession
    /\ sessions = 0
    /\ sessPrev = ProfileOf(NoSession)

InitDrv ==
    /\ env \in EnvChoices
    /\ disk = {}
    /\ sess = NoSession
    /\ sessions = 0
    /\ sessPrev = ProfileOf(NoSession)

\* Entering `with start_driver(...)`: resolve the profile, launch the
\* browser.  A launch that raises runs the finally block at once.
EnterScope ==
    /\ sess.phase # "open"
    /\ sessions < MaxSessions
    /\ sessions' = sessions + 1
    /\ sessPrev' = ProfileOf(sess)
    /\ CanMkdtemp(disk)
    /\ \E pp \in {None, "True", "False"}, pn \in {NoName} \cup ProfileNames,
          pd \in {NoName} \cup ProfileDirs, l \in Launches :
          LET r == resolve_profile(pp, pn, pd, env, disk)
              d1 == disk \cup {r.path}
              engine == l.engine
              chrome == engine = "chrome"
              c0 == chrome_data_dir(pn, pd, env)
              d2 == IF chrome THEN d1 \cup {c0} ELSE d1
              fallback == chrome /\ ~l.writable
              cdir == IF fallback THEN FreshChromeTemp(d2) ELSE c0
              d3 == IF fallback THEN d2 \cup {cdir} ELSE d2
              s == [phase |-> "open", pp |-> pp, pn |-> pn, pd |-> pd,
                    engine |-> engine, path |-> r.path,
                    is_persistent |-> r.is_persistent,
                    is_temporary |-> r.is_temporary,
                    fresh |-> r.path \notin disk,
                    dataDir |-> IF chrome THEN cdir ELSE r.path,
                    temps |-> (IF r.mkdtemp THEN {r.path} ELSE {})
                              \cup (IF fallback THEN {cdir} ELSE {}),
                    browser |-> "running", exit |-> "none"]
          IN  IF l.launched
                 THEN /\ sess' = s
                      /\ disk' = d3
                 ELSE /\ sess' = [s EXCEPT !.phase = "closed",
                                           !.browser = "none",
                                           !.exit = "launch_error"]
                      /\ disk' = AfterCleanup(d3, r)
    /\ UNCHANGED <<env, lumaVars, grabVars, batchVars, dlVars, laterVars>>

\* Leaving the scope, normally or because the body raised: the finally
\* block quits the driver and removes the profile when it is temporary.
LeaveScope ==
    /\ sess.phase = "open"
    /\ \E raised \in BOOLEAN :
          sess' = [sess EXCEPT !.phase = "closed", !.browser = "quit",
                               !.exit = IF raised THEN "exception" ELSE "normal"]
    /\ disk' = AfterCleanup(disk, sess)
    /\ UNCHANGED <<env, sessions, sessPrev, lumaVars, grabVars, batchVars,
                   dlVars, laterVars>>

NextDrv == EnterScope \/ LeaveScope

\* C4 (as claimed): whenever a start_driver scope has been left, normally or
\* by an exception, the launched browser has been quit and no temporary
\* directory made for that (non-persistent) session is left on disk.
C4_ScopeExitCleansUp ==
    (sess.phase = "closed" /\ sess.exit \in {"normal", "exception"}) =>
        /\ sess.browser # "running"
        /\ (~sess.is_persistent => sess.temps \cap disk = {})

C29_PersistentSessionsShareDirectory ==
    (sessPrev.persistUnnamed /\ PersistRequestedUnnamed(sess)) =>
        sess.path = sessPrev.path

(***************************************************************************)
(* Range-driven batch loops: medicare/*/..._pdf_grabber.py, ccfs_lookup.py  *)
(***************************************************************************)
MaxRows == 3

Min(a, b) == IF a < b THEN a ELSE b

Max(a, b) == IF a > b THEN a ELSE b

\* The row numbers lo..hi in ascending order (empty when lo > hi).
Rows(lo, hi) == [k \in 1..Max(hi - lo + 1, 0) |-> lo + k - 1]

\* Python's seq[lo:hi] over n rows, as 1-based row numbers: a negative
\* bound counts from the end, and both are clipped to 0..n.
PyIndex(k, n) == IF k < 0 THEN Max(k + n, 0) ELSE Min(k, n)

PySlice(n, lo, hi) == Rows(PyIndex(lo, n) + 1, PyIndex(hi, n))

RangeKinds == {"aetna", "kaiser", "humana_direct", "centene", "ccfs"}

GrabKinds == RangeKinds \cup {"uhc"}

PlanFailures == {"ok", "malformed_id", "nav_error", "not_found",
                 "download_error"}

\* main(start_n, stop_n) of the Aetna, Kaiser, Humana and Centene grabbers:
\* clamp, reject an empty input or start > stop, then range(start-1, stop).
GrabberRange(start, stop, n) ==
    LET s1 == IF start < 1 THEN 1 ELSE start
        s2 == IF ~stop.given \/ stop.val > n THEN n ELSE stop.val
    IN  IF n = 0 \/ s1 > s2
        THEN [ok |-> FALSE, rows |-> <<>>]
        ELSE [ok |-> TRUE, rows |-> Rows(s1, s2)]

\* main() of ccfs_lookup.py: max(1, start), default stop, reject an empty
\* input or start > total, min(stop, total), then ubis[start-1 : stop].
CcfsRange(start, stop, n) ==
    LET s1 == Max(1, start)
        s2 == IF stop.given THEN stop.val ELSE n
    IN  IF n = 0 \/ s1 > n
        THEN [ok |-> FALSE, rows |-> <<>>]
        ELSE [ok |-> TRUE, rows |-> PySlice(n, s1 - 1, Min(s2, n))]

\* download_plan_pdfs of uhc_pdf_grabber.py: every row of the CSV.
UhcRange(n) == [ok |-> TRUE, rows |-> Rows(1, n)]

\* Whether a failure met while one plan is processed leaves the loop as an
\* exception (TRUE) or is handled inside the loop body (FALSE).
\*  aetna: build_plan_url unpacks plan_id.split("-") and driver.get run
\*         outside any try; a missing link or a failed download is caught.
\*  kaiser: driver.get and the waits of scrape_plan_pdfs run outside any
\*         try; the plan ID is only used in file names.
\*  humana_direct: normalize_plan_id's ValueError is caught; requests only.
\*  centene, ccfs: the whole body is inside try/except Exception.
\*  uhc:   fetch_pdfs calls build_uhc_url, a name the module never defines,
\*         before its try block: every plan raises NameError.
EscapesLoop(kind, f) ==
    CASE kind = "aetna" -> f \in {"malformed_id", "nav_error"}
      [] kind = "kaiser" -> f \in {"nav_error", "not_found"}
      [] kind = "humana_direct" -> FALSE
      [] kind = "centene" -> FALSE
      [] kind = "ccfs" -> FALSE
      [] kind = "uhc" -> TRUE

StopArgs == {[given |-> FALSE, val |-> 0]}
            \cup [given : {TRUE}, val : (0 - 2)..(MaxRows + 1)]

ParkedGrab ==
    /\ gKind = "aetna"
    /\ gRows = 0
    /\ gStart = 1
    /\ gStop = [given |-> FALSE, val |-> 0]
    /\ gState = "start"
    /\ gSlice = <<>>
    /\ gPos = 1
    /\ gProcessed = <<>>
    /\ gLast = "none"

InitGrab ==
    /\ gKind \in GrabKinds
    /\ gRows \in 0..MaxRows
    /\ gStart \in (0 - 1)..(MaxRows + 1)
    /\ gStop \in StopArgs
    /\ (gKind = "uhc" => gStart = 1 /\ ~gStop.given)
    /\ gState = "start"
    /\ gSlice = <<>>
    /\ gPos = 1
    /\ gProcessed = <<>>
    /\ gLast = "none"

\* The prologue of main: load the rows, normalise the range.
StartRun ==
    /\ gState = "start"
    /\ LET r == CASE gKind = "ccfs" -> CcfsRange(gStart, gStop, gRows)
                  [] gKind = "uhc" -> UhcRange(gRows)
                  [] OTHER -> GrabberRange(gStart, gStop, gRows)
       IN  /\ gState' = IF r.ok THEN "running" ELSE "rejected"
           /\ gSlice' = r.rows
    /\ UNCHANGED <<gKind, gRows, gStart, gStop, gPos, gProcessed, gLast,
                   lumaVars, drvVars, batchVars, dlVars, laterVars>>

\* One iteration of the per-plan (per-UBI) loop.
ProcessPlan ==
    /\ gState = "running"
    /\ gPos <= Len(gSlice)
    /\ \E f \in PlanFailures :
          /\ gLast' = f
          /\ gState' = IF EscapesLoop(gKind, f) THEN "aborted" ELSE "running"
    /\ gProcessed' = Append(gProcessed, gSlice[gPos])
    /\ gPos' = gPos + 1
    /\ UNCHANGED <<gKind, gRows, gStart, gStop, gSlice, lumaVars, drvVars,
                   batchVars, dlVars, laterVars>>

\* The loop runs out of rows.
FinishRun ==
    /\ gState = "running"
    /\ gPos > Len(gSlice)
    /\ gState' = "done"
    /\ UNCHANGED <<gKind, gRows, gStart, gStop, gSlice, gPos, gProcessed,
                   gLast, lumaVars, drvVars, batchVars, dlVars, laterVars>>

NextGrab == StartRun \/ ProcessPlan \/ FinishRun

\* C6 (as claimed): in every carrier grabber a failure while one plan is
\* processed is caught at the loop boundary, so when the run has ended
\* every plan of the requested range has been processed.
C6_PlanFailureNeverAbortsBatch ==
    (gKind # "ccfs" /\ gState \in {"done", "aborted"}) =>
        /\ gState = "done"
        /\ gProcessed = gSlice

\* C8 (as claimed): for N rows and any integer start/stop, a run that ends
\* without an escaping exception has processed exactly the rows i with
\* max(1, start) <= i <= min(stop, N) (stop omitted means N), once each,
\* in ascending order.
C8_ExactlyRequestedRange ==
    (gKind \in RangeKinds /\ gState \in {"done", "rejected"}) =>
        gProcessed = Rows(Max(1, gStart),
                          Min(IF gStop.given THEN gStop.val ELSE gRows, gRows))

(***************************************************************************)
(* medicare_scraper.py: the (ZIP, plan type) batch                         *)
(***************************************************************************)
MaxZips == 3

PLAN_CHOICES == <<"mapd">>

\* The nested loops of main: for each ZIP row, for each plan type.
Pairs(n) ==
    [k \in 1..(n * Len(PLAN_CHOICES)) |->
        [zi |-> ((k - 1) \div Len(PLAN_CHOICES)) + 1,
         pi |-> ((k - 1) % Len(PLAN_CHOICES)) + 1]]

\* Mutant: the finally block of start_driver does not quit the browser.
QuitDriver_Skipped(open) == open

\* finally: if driver: driver.quit()
QuitDriver(open) == open - 1

\* except Exception as e: ... continue
CaughtByMain(exc) == exc \in {"WebDriverException", "TimeoutException",
                              "Exception"}

LaunchOutcomes == {"ok", "launch_fail", "setup_fail"}

BodyOutcomes == {"ok", "WebDriverException", "TimeoutException", "Exception"}

ParkedBatch ==
    /\ bZips = 0
    /\ bNext = 1
    /\ bPhase = "idle"
    /\ bOpen = 0
    /\ bAttempted = <<>>
    /\ bOutcomes = <<>>

InitBatch ==
    /\ bZips \in 0..MaxZips
    /\ bNext = 1
    /\ bPhase = "idle"
    /\ bOpen = 0
    /\ bAttempted = <<>>
    /\ bOutcomes = <<>>

\* Top of the inner loop body: completed += 1, then `with start_driver()`.
\* launch_fail: webdriver.Firefox(...) raises, no browser exists.
\* setup_fail:  the browser exists, set_page_load_timeout raises, the
\*              finally block quits it before the exception reaches main.
BeginPair ==
    /\ bPhase = "idle"
    /\ bNext <= Len(Pairs(bZips))
    /\ bAttempted' = Append(bAttempted, Pairs(bZips)[bNext])
    /\ \E l \in LaunchOutcomes :
          CASE l = "ok" ->
                 /\ bOpen' = bOpen + 1
                 /\ bPhase' = "in_session"
                 /\ UNCHANGED <<bNext, bOutcomes>>
            [] l = "launch_fail" ->
                 /\ bOpen' = bOpen
                 /\ bPhase' = IF CaughtByMain("WebDriverException")
                               THEN "idle" ELSE "crashed"
                 /\ bNext' = bNext + 1
                 /\ bOutcomes' = Append(bOutcomes, "launch_fail")
            [] l = "setup_fail" ->
                 /\ bOpen' = QuitDriver(bOpen + 1)
                 /\ bPhase' = IF CaughtByMain("WebDriverException")
                               THEN "idle" ELSE "crashed"
                 /\ bNext' = bNext + 1
                 /\ bOutcomes' = Append(bOutcomes, "setup_fail")
    /\ UNCHANGED <<bZips, lumaVars, drvVars, grabVars, dlVars, laterVars>>

\* run_zipcode_plan returns or raises; the with block is left, the finally
\* block of start_driver quits the browser, main catches the exception.
EndPair ==
    /\ bPhase = "in_session"
    /\ \E r \in BodyOutcomes :
          /\ bOutcomes' = Append(bOutcomes, r)
          /\ bPhase' = IF r = "ok" \/ CaughtByMain(r)
                        THEN "idle" ELSE "crashed"
    /\ bOpen' = QuitDriver(bOpen)
    /\ bNext' = bNext + 1
    /\ UNCHANGED <<bZips, bAttempted, lumaVars, drvVars, grabVars, dlVars,
                   laterVars>>

\* Both loops are exhausted: the [COMPLETE] line is printed.
FinishBatch ==
    /\ bPhase = "idle"
    /\ bNext > Len(Pairs(bZips))
    /\ bPhase' = "end"
    /\ UNCHANGED <<bZips, bNext, bOpen, bAttempted, bOutcomes, lumaVars,
                   drvVars, grabVars, dlVars, laterVars>>

NextBatch == BeginPair \/ EndPair \/ FinishBatch

\* C7: the batch attempts the (ZIP, plan type) pairs in input order, each
\* once; no exception of a pair stops it; a pair's session is closed before
\* the next pair starts, so at most one session is open at any time and
\* none when the batch ends, which it does only after every pair.
C7_EveryPairOnceOneSessionAtATime ==
    /\ IsPrefix(bAttempted, Pairs(bZips))
    /\ bPhase # "crashed"
    /\ bOpen <= 1
    /\ (bPhase \in {"idle", "end"} => bOpen = 0)
    /\ (bPhase = "end" => bAttempted = Pairs(bZips))

C7_Witness ==
    /\ bPhase = "end"
    /\ Len(bAttempted) = 3
    /\ bOutcomes[1] = "launch_fail"
    /\ bOutcomes[2] = "TimeoutException"
    /\ bOutcomes[3] = "ok"

(***************************************************************************)
(* Per-plan document downloads: Aetna, Humana (direct), Centene, UHC       *)
(***************************************************************************)
MaxRuns == 2

MaxCopies == 2

Docs == {"SB", "EOC"}

YEARS == <<2025, 2024>>

NoSuffix == ""

YearSuffix(y) == "_" \o ToString(y)

CopySuffix(k) == IF k = 0 THEN NoSuffix ELSE "_" \o ToString(k)

Suffixes == {NoSuffix} \cup {YearSuffix(YEARS[i]) : i \in 1..Len(YEARS)}
            \cup {CopySuffix(k) : k \in 1..MaxCopies}

\* A file of the plan's folder: {plan_id}_{label}{suffix}.pdf
FileNames == [label : Docs, suffix : Suffixes]

FileStates == {"missing", "empty", "full"}

SkipKinds == {"aetna", "humana_direct", "centene"}

DownloadKinds == SkipKinds \cup {"uhc"}

\* Destination of a document.  Aetna and Centene:
\* f"{safe_name(plan_id)}_{safe_name(label)}.pdf"; Humana (direct):
\* f"{normalized_id}_{label.replace(' ', '')}_{year}.pdf".
AetnaDest(label) == [label |-> label, suffix |-> NoSuffix]

HumanaDest(label, year) == [label |-> label, suffix |-> YearSuffix(year)]

\* for year in YEARS: for suffix, label in DOC_SUFFIXES.items()
HumanaOffered ==
    <<HumanaDest("SB", YEARS[1]), HumanaDest("EOC", YEARS[1]),
      HumanaDest("SB", YEARS[2]), HumanaDest("EOC", YEARS[2])>>

\* pdfs.items(): the labels scraped for the plan, each once, in page order.
ScrapedOffered ==
    {<<AetnaDest(a)>> : a \in Docs}
    \cup UNION {{<<AetnaDest(a), AetnaDest(b)>> : b \in Docs \ {a}} :
                   a \in Docs}

\* Mutant: the size of the existing file is not looked at.
ShouldSkip_ExistsOnly(st) == st # "missing"

\* if os.path.exists(out_path) and os.path.getsize(out_path) > 0: continue
ShouldSkip(st) == st = "full"

DownloadOutcomes == {"ok", "empty_body", "error"}

\* download_pdf: the file is opened for writing only after the response
\* was accepted; an accepted response with no content leaves a 0-byte file.
AfterDownload(st, o) ==
    CASE o = "ok" -> "full"
      [] o = "empty_body" -> "empty"
      [] o = "error" -> st

\* uhc download_pdf: fname = safe_name.pdf; while os.path.exists(fpath):
\* fname = f"{safe_name}_{counter}.pdf"; counter += 1
UhcFreeCopies(f, label) ==
    {k \in 0..MaxCopies :
        /\ f[[label |-> label, suffix |-> CopySuffix(k)]] = "missing"
        /\ \A j \in 0..(k - 1) :
              f[[label |-> label, suffix |-> CopySuffix(j)]] # "missing"}

ParkedDownload ==
    /\ dKind = "aetna"
    /\ files = [n \in FileNames |-> "missing"]
    /\ dFiles0 = [n \in FileNames |-> "missing"]
    /\ dOffered = <<>>
    /\ dPos = 1
    /\ dRequested = {}
    /\ dRuns = 0

InitDownload ==
    /\ dKind \in DownloadKinds
    /\ dOffered \in IF dKind = "humana_direct" THEN {HumanaOffered}
                     ELSE ScrapedOffered
    /\ files \in [FileNames -> FileStates]
    /\ \A n \in FileNames :
          \/ n \in Range(dOffered)
          \/ files[n] = "missing"
          \/ dKind = "humana_direct" /\ n.suffix = NoSuffix
                /\ files[n] = "full"
    /\ dFiles0 = files
    /\ dPos = 1
    /\ dRequested = {}
    /\ dRuns = 1

\* One iteration of `for label, href in pdfs.items()` (Aetna, Centene) or of
\* the year/suffix loops (Humana direct).
DownloadStep ==
    /\ dKind \in SkipKinds
    /\ dPos <= Len(dOffered)
    /\ LET n == dOffered[dPos]
       IN  IF ShouldSkip(files[n])
           THEN UNCHANGED <<files, dRequested>>
           ELSE /\ dRequested' = dRequested \cup {n}
                /\ \E o \in DownloadOutcomes :
                      files' = [files EXCEPT ![n] = AfterDownload(@, o)]
    /\ dPos' = dPos + 1
    /\ UNCHANGED <<dKind, dFiles0, dOffered, dRuns, lumaVars, drvVars,
                   grabVars, batchVars, laterVars>>

\* One call download_pdf(doc_type, url, plan_folder, req_sess) of the UHC
\* grabber.
UhcDownloadPdf ==
    /\ dKind = "uhc"
    /\ dPos <= Len(dOffered)
    /\ LET n == dOffered[dPos]
       IN  /\ \E k \in UhcFreeCopies(files, n.label) :
                 \E o \in DownloadOutcomes :
                    files' = [files EXCEPT
                                ![[label |-> n.label,
                                   suffix |-> CopySuffix(k)]] =
                                       AfterDownload(@, o)]
           /\ dRequested' = dRequested \cup {n}
    /\ dPos' = dPos + 1
    /\ UNCHANGED <<dKind, dFiles0, dOffered, dRuns, lumaVars, drvVars,
                   grabVars, batchVars, laterVars>>

\* The grabber is run again over the same plan.
Rerun ==
    /\ dPos > Len(dOffered)
    /\ dRuns < MaxRuns
    /\ dRuns' = dRuns + 1
    /\ dPos' = 1
    /\ dRequested' = {}
    /\ dFiles0' = files
    /\ UNCHANGED <<dKind, files, dOffered, lumaVars, drvVars, grabVars,
                   batchVars, laterVars>>

NextDownload == DownloadStep \/ UhcDownloadPdf \/ Rerun

\* The documents the current run has already gone past.
Visited == {dOffered[i] : i \in 1..(dPos - 1)}

\* C9 (as claimed): for each (plan, label) a request is issued iff the file
\* {plan_id}_{label}.pdf is missing or empty.
C9_RequestIffPlanLabelFileMissing ==
    dKind \in SkipKinds =>
        \A n \in Visited :
            n \in dRequested <=> dFiles0[AetnaDest(n.label)] # "full"

\* C9 (amended): in the Aetna, Humana (direct) and Centene grabbers a
\* request is issued for a document iff its destination file is missing or
\* empty, the destination being {plan_id}_{label}.pdf for Aetna and Centene
\* and {plan_id}_{label}_{year}.pdf for Humana; a non-empty destination is
\* skipped and left as it is, the run touches no file it did not request,
\* and every other offered document is still gone through.
C9_RequestIffDestinationMissingOrEmpty ==
    dKind \in SkipKinds =>
        /\ dRequested \subseteq Visited
        /\ \A n \in Visited :
              /\ n \in dRequested <=> dFiles0[n] \in {"missing", "empty"}
              /\ n \notin dRequested => files[n] = "full"
        /\ \A n \in FileNames \ dRequested : files[n] = dFiles0[n]

C9_Witness ==
    /\ dKind \in SkipKinds
    /\ dRuns = 2
    /\ dPos > Len(dOffered)
    /\ \E n, m \in Range(dOffered) :
          /\ n.label = m.label => n.suffix # m.suffix
          /\ dFiles0[n] = "full" /\ n \notin dRequested
          /\ dFiles0[m] = "empty" /\ m \in dRequested /\ files[m] = "full"

\* C10 (as claimed): the UHC grabber skips a document whose non-empty file
\* is already in the plan's folder: no request is issued for it and no
\* additional file appears.
C10_UhcSkipsExistingDocument ==
    dKind = "uhc" =>
        \A n \in Visited :
            dFiles0[n] = "full" =>
                /\ n \notin dRequested
                /\ \A m \in FileNames :
                      m.label = n.label => files[m] = dFiles0[m]

(***************************************************************************)
(* WA registry: process_ubi (ccfs_lookup.py) and append_to_json            *)
(* (pdf_to_business_json.py) over one UBI's JSON file                      *)
(***************************************************************************)
MaxOps == 3

Infos == {"f1", "f2"}

\* A JSON file: absent, not parseable, a top-level list (the older flat
\* shape, its records in items), or a top-level object with its keys, its
\* filings list and the keys of its capture_paths object.
JsonFile(kind, keys, filings, items, paths) ==
    [kind |-> kind, keys |-> keys, filings |-> filings, items |-> items,
     paths |-> paths]

AbsentFile == JsonFile("absent", {}, <<>>, <<>>, {})

CorruptFile == JsonFile("corrupt", {}, <<>>, <<>>, {})

\* data = {"ubi": ubi, "filings": []}
FreshLog == JsonFile("dict", {"ubi", "filings"}, <<>>, <<>>, {})

\* json_data of process_ubi: parse_detail_html's object plus capture_paths
\* with list_html and detail_html.
ScraperRecord ==
    JsonFile("dict", {"UBI", "sections", "capture_paths"}, <<>>, <<>>,
             {"list_html", "detail_html"})

\* append_to_json(ubi, info): the loaded content is kept only when it is an
\* object holding "filings"; anything else is replaced by a fresh log.
append_to_json(file, info) ==
    LET data == IF file.kind = "dict" /\ "filings" \in file.keys
                THEN file ELSE FreshLog
    IN  [data EXCEPT !.filings = Append(@, info)]

\* How a process_ubi call goes: the exceptions and early returns before the
\* detail page, or the detail page loading and the JSON being written.
UbiOutcomes == {"search_error", "no_results", "click_timeout",
                "detail_timeout", "detail_loaded"}

\* process_ubi: out_path.write_text(json.dumps(json_data)) once the detail
\* page has loaded; nothing else in it writes the JSON file.
process_ubi(file, outcome) ==
    IF outcome = "detail_loaded" THEN ScraperRecord ELSE file

NoOp == [op |-> "none", info |-> "none", outcome |-> "none",
         report |-> FALSE]

ParkedRegistry ==
    /\ jFile = AbsentFile
    /\ jPre = AbsentFile
    /\ jOp = NoOp
    /\ pdfStored = FALSE
    /\ jOps = 0

InitRegistry ==
    /\ jFile \in {AbsentFile, CorruptFile, ScraperRecord, FreshLog,
                  JsonFile("list", {}, <<>>, <<"f1">>, {}),
                  JsonFile("list", {}, <<>>, <<"f1", "f2">>, {})}
    /\ jPre = jFile
    /\ jOp = NoOp
    /\ pdfStored = FALSE
    /\ jOps = 0

\* pdf_to_business_json.main: append_to_json(ubi, info) for a parsed PDF.
AppendToJson ==
    /\ jOps < MaxOps
    /\ \E info \in Infos :
          /\ jFile' = append_to_json(jFile, info)
          /\ jOp' = [op |-> "append", info |-> info, outcome |-> "none",
                     report |-> FALSE]
    /\ jPre' = jFile
    /\ jOps' = jOps + 1
    /\ UNCHANGED <<pdfStored, outsideRegistry>>

\* ccfs_lookup.process_ubi for this UBI; report says whether the filing
\* history lists a fulfilled annual report.  After writing the JSON the
\* function clicks "Filing History" and returns: save_latest_annual_report
\* is never called, so no PDF is fetched and the JSON is not written again.
ProcessUbi ==
    /\ jOps < MaxOps
    /\ \E outcome \in UbiOutcomes, report \in BOOLEAN :
          /\ jFile' = process_ubi(jFile, outcome)
          /\ jOp' = [op |-> "process_ubi", info |-> "none",
                     outcome |-> outcome, report |-> report]
    /\ jPre' = jFile
    /\ jOps' = jOps + 1
    /\ UNCHANGED <<pdfStored, outsideRegistry>>

NextRegistry == AppendToJson \/ ProcessUbi

\* C11 (as claimed): append_to_json never discards stored data: earlier
\* filings stay in order with the new record last, a flat-list file is
\* migrated with its records kept, a scraper record keeps its keys
\* alongside filings, and an absent file is created with only the record.
C11_AppendNeverDiscards ==
    jOp.op = "append" =>
        /\ jFile.kind = "dict"
        /\ "filings" \in jFile.keys
        /\ jPre.kind = "absent" => jFile.filings = <<jOp.info>>
        /\ jPre.kind = "list" =>
              jFile.filings = Append(jPre.items, jOp.info)
        /\ jPre.kind = "dict" =>
              /\ jPre.keys \subseteq jFile.keys
              /\ jPre.paths \subseteq jFile.paths
              /\ jFile.filings = Append(jPre.filings, jOp.info)

\* C12 (as claimed): when the detail page loaded and the filing history
\* lists a fulfilled annual report, processing the UBI ends with the PDF
\* stored at the UBI-keyed path and that path recorded in the JSON on disk.
C12_AnnualReportStoredAndRecorded ==
    (jOp.op = "process_ubi" /\ jOp.outcome = "detail_loaded" /\ jOp.report)
        => /\ pdfStored
           /\ jFile.kind = "dict"
           /\ "annual_report_pdf" \in jFile.paths

(***************************************************************************)
(* Database pool: utils/db_utils.py                                        *)
(***************************************************************************)
\* pool.SimpleConnectionPool(minconn=1, maxconn=20, ...)
maxconn == 20

DbOps == {"fetch_existing_listings_from_rds", "insert_listing_to_rds",
          "update_listing_in_rds"}

\* Callers currently inside some database operation with a connection.
InProgress(h) ==
    h["fetch_existing_listings_from_rds"] + h["insert_listing_to_rds"]
        + h["update_listing_in_rds"]

ParkedPool ==
    /\ pImport = "pending"
    /\ pUsed = 0
    /\ pHolding = [op \in DbOps |-> 0]
    /\ pLast = [op |-> "none", event |-> "none"]

InitPool ==
    /\ pImport = "pending"
    /\ pUsed = 0
    /\ pHolding = [op \in DbOps |-> 0]
    /\ pLast = [op |-> "none", event |-> "none"]

\* Module level: try: conn = getconn(); cur = conn.cursor();
\* cur.execute("SELECT 1;"); ...; putconn(conn) / except: logging.error.
\* putconn is inside the try block: when cursor() or execute raises after
\* getconn succeeded, the except clause only logs.
LivenessCheck ==
    /\ pImport = "pending"
    /\ \E o \in {"ok", "getconn_error", "query_error"} :
          /\ pImport' = o
          /\ pUsed' = IF o = "query_error" THEN pUsed + 1 ELSE pUsed
          /\ pLast' = [op |-> "import", event |-> o]
    /\ UNCHANGED <<pHolding, outsidePool>>

\* conn = postgres_pool.getconn() at the top of an operation's try block.
\* On an exhausted pool getconn raises PoolError; it can also fail to
\* connect.  Either way conn stays None, the except clause reports, the
\* finally block has nothing to return, and the operation is over.
GetConn(op) ==
    /\ pImport # "pending"
    /\ \/ /\ pUsed < maxconn
          /\ pUsed' = pUsed + 1
          /\ pHolding' = [pHolding EXCEPT ![op] = @ + 1]
          /\ pLast' = [op |-> op, event |-> "getconn_ok"]
       \/ /\ pUsed < maxconn
          /\ pLast' = [op |-> op, event |-> "getconn_error"]
          /\ UNCHANGED <<pUsed, pHolding>>
       \/ /\ pUsed >= maxconn
          /\ pLast' = [op |-> op, event |-> "pool_exhausted"]
          /\ UNCHANGED <<pUsed, pHolding>>
    /\ UNCHANGED <<pImport, outsidePool>>

\* The rest of the operation: the statement succeeds or raises (the except
\* clause reports and rolls back), then finally: cursor.close();
\* postgres_pool.putconn(conn).
PutConn(op) ==
    /\ pHolding[op] > 0
    /\ \E r \in {"returned_after_success", "returned_after_error"} :
          pLast' = [op |-> op, event |-> r]
    /\ pUsed' = pUsed - 1
    /\ pHolding' = [pHolding EXCEPT ![op] = @ - 1]
    /\ UNCHANGED <<pImport, outsidePool>>

FetchExistingListings ==
    \/ GetConn("fetch_existing_listings_from_rds")
    \/ PutConn("fetch_existing_listings_from_rds")

InsertListing ==
    \/ GetConn("insert_listing_to_rds")
    \/ PutConn("insert_listing_to_rds")

UpdateListing ==
    \/ GetConn("update_listing_in_rds")
    \/ PutConn("update_listing_in_rds")

NextPool ==
    LivenessCheck \/ FetchExistingListings \/ InsertListing \/ UpdateListing

\* C13 (as claimed): every connection taken from the pool is returned
\* exactly once before its operation returns, so the checked-out count
\* never exceeds 20, equals the number of operations holding a connection,
\* and is zero whenever no operation is in progress, the import-time
\* liveness check included.
C13_PoolConnectionsAlwaysReturned ==
    /\ pUsed <= maxconn
    /\ pImport # "pending" => pUsed = InProgress(pHolding)

(***************************************************************************)
(* Google pipeline: Stage 1 (pdf_grabber.py) and Stage 2                   *)
(* (filter_and_download.py)                                                *)
(***************************************************************************)
MaxApiCalls == 3

\* DOC_TYPES keys: the labels categorize_link can return.
DocLabels == {"Summary_of_Benefits", "Evidence_of_Coverage",
              "Drug_Formulary"}

\* fieldnames of Stage 1's csv.DictWriter.
Stage1Fields == {"plan_id", "plan_name", "doc_label", "query_label", "url",
                 "title", "snippet"}

\* The columns Stage 2 reads from each row with row[...].
Stage2Reads == {"plan_id", "plan_name", "company", "doc_label",
                "candidate_links"}

\* A response of the search API: a status and the categorized PDF items.
Responses ==
    {[status |-> "429", items |-> <<>>], [status |-> "200", items |-> <<>>]}
    \cup {[status |-> "200", items |-> <<l>>] : l \in DocLabels}

\* run_search: one requests.get, then raise_for_status.  Returns how many
\* requests were issued for the query and whether an HTTPError is raised.
run_search(resp) ==
    [attempts |-> 1, raised |-> resp.status # "200", items |-> resp.items]

\* The position of the first page whose request raised, 0 when none did.
FirstRaise(resps) ==
    IF \E k \in 1..Len(resps) : run_search(resps[k]).raised
    THEN CHOOSE k \in 1..Len(resps) :
            /\ run_search(resps[k]).raised
            /\ \A j \in 1..(k - 1) : ~run_search(resps[j]).raised
    ELSE 0

\* One candidates-CSV row per categorized item: out_writer.writerow(row).
RowsOf(id, resps) ==
    LET one(k) == [i \in 1..Len(resps[k].items) |->
                     [plan_id |-> id, doc_label |-> resps[k].items[i],
                      fields |-> Stage1Fields]]
    IN  IF Len(resps) = 1 THEN one(1) ELSE one(1) \o one(2)

\* Stage 2 main over the CSV: the first row makes it read row["company"].
stage2_main(rows) ==
    IF \A i \in 1..Len(rows) : Stage2Reads \subseteq rows[i].fields
    THEN "ok" ELSE "KeyError"

ParkedHarvest ==
    /\ hState = "running"
    /\ hCalls = 0
    /\ hAttempts = 0
    /\ hLastStatus = "none"
    /\ hRows = <<>>
    /\ hStage2 = "not_run"

InitHarvest ==
    /\ hState = "running"
    /\ hCalls = 0
    /\ hAttempts = 0
    /\ hLastStatus = "none"
    /\ hRows = <<>>
    /\ hStage2 = "not_run"

\* One api_collect_candidates call of main (raw or normalized plan ID, one
\* or two pages) followed by main's writerow loop.  A page whose request
\* raises ends the call, and main, with the exception; the rows of the
\* call's earlier pages are then never written.
ApiCollectCandidates ==
    /\ hState = "running"
    /\ hCalls < MaxApiCalls
    /\ \E id \in {"raw", "norm"}, pages \in {1, 2} :
         \E resps \in [1..pages -> Responses] :
            LET k == FirstRaise(resps)
                last == IF k = 0 THEN pages ELSE k
            IN  /\ hAttempts' = run_search(resps[last]).attempts
                /\ hLastStatus' = resps[last].status
                /\ hState' = IF k = 0 THEN "running" ELSE "failed"
                /\ hRows' = IF k = 0 THEN hRows \o RowsOf(id, resps)
                            ELSE hRows
    /\ hCalls' = hCalls + 1
    /\ UNCHANGED <<hStage2, outsideHarvest>>

\* The plan loop of Stage 1 ends: out_fh.close().
FinishStage1 ==
    /\ hState = "running"
    /\ hCalls > 0
    /\ hState' = "done"
    /\ UNCHANGED <<hCalls, hAttempts, hLastStatus, hRows, hStage2,
                   outsideHarvest>>

\* filter_and_download.main run over the candidates CSV Stage 1 left.
Stage2 ==
    /\ hState \in {"done", "failed"}
    /\ hStage2 = "not_run"
    /\ hStage2' = stage2_main(hRows)
    /\ UNCHANGED <<hState, hCalls, hAttempts, hLastStatus, hRows,
                   outsideHarvest>>

NextHarvest == ApiCollectCandidates \/ FinishStage1 \/ Stage2

\* C14 (as claimed): a query answered with HTTP 429 is retried after a
\* backoff, so a 429 stops the run only after the same query was requested
\* more than once.
C14_RateLimitRetriedBeforeFailure ==
    (hState = "failed" /\ hLastStatus = "429") => hAttempts > 1

\* C15 (as claimed): the candidates CSV has at most one row per (plan,
\* document type), every row carries the fields Stage 2 reads, and Stage 2
\* never fails on a missing field.
C15_Stage1RowsFitStage2 ==
    /\ \A i, j \in 1..Len(hRows) :
          (hRows[i].plan_id = hRows[j].plan_id
             /\ hRows[i].doc_label = hRows[j].doc_label) => i = j
    /\ \A i \in 1..Len(hRows) : Stage2Reads \subseteq hRows[i].fields
    /\ hStage2 # "KeyError"

(***************************************************************************)
(* medicare_scraper.py: run_zipcode_plan and the rows of plan_links.csv     *)
(***************************************************************************)
MaxPlanRuns == 3

\* The plans a results list can show, each with the URL of its detail page.
SitePlans == {[plan_id |-> "H1036-077-0", url |-> "plan-details/H1036"],
              [plan_id |-> "H5216-318-1", url |-> "plan-details/H5216"]}

ZipCodes == {"98101", "10001"}

\* dict.get(key, default)
Get(d, k, default) == IF k \in DOMAIN d THEN d[k] ELSE default

\* scrape_plan_detail_page: the dict it returns for the plan whose detail
\* page is open.  The page's URL is not read.
scrape_plan_detail_page(p) ==
    [plan_name |-> "name of " \o p.plan_id, company |-> "company",
     plan_type |-> "mapd", plan_id |-> p.plan_id,
     saved_file |-> "medicare_zncti/" \o p.plan_id \o ".html"]

\* scrape_all_plan_details: one dict per plan of the results list.
scrape_all_plan_details(plans) ==
    [i \in 1..Len(plans) |-> scrape_plan_detail_page(plans[i])]

\* The row save_plan_link appends for one result of run_zipcode_plan.
save_plan_link(zip, plan) ==
    [zip |-> zip,
     company |-> Get(plan, "company", ""),
     plan_name |-> Get(plan, "plan_name", ""),
     plan_type |-> Get(plan, "plan_type", ""),
     plan_id |-> Get(plan, "plan_id", ""),
     link_to_plan_page |-> Get(plan, "link_to_plan_page", "")]

\* The results lists of a ZIP: no plan, one plan, or both in either order.
ResultLists ==
    {<<>>} \cup {<<p>> : p \in SitePlans}
    \cup UNION {{<<p, q>> : q \in SitePlans \ {p}} : p \in SitePlans}

ParkedPlanLinks ==
    /\ plHeader = FALSE
    /\ plRows = <<>>
    /\ plRuns = 0
    /\ plLast = "none"
    /\ plScraped = <<>>

InitPlanLinks ==
    /\ plHeader = FALSE
    /\ plRows = <<>>
    /\ plRuns = 0
    /\ plLast = "none"
    /\ plScraped = <<>>

\* run_zipcode_plan: the wizard steps and the scrape either raise (nothing
\* is saved, the results gathered so far are dropped) or return the
\* results, each of which is appended to the CSV.  When the scrape raises,
\* done is the number of plans whose detail page had been scraped and
\* appended to `results` before; plScraped lists every detail page scraped.
RunZipcodePlan ==
    /\ plRuns < MaxPlanRuns
    /\ \E zip \in ZipCodes, plans \in ResultLists, raised \in BOOLEAN :
          IF raised
          THEN \E done \in 0..Len(plans) :
               /\ plLast' = "raised"
               /\ plScraped' = plScraped \o
                     [i \in 1..done |->
                         [zip |-> zip, plan_id |-> plans[i].plan_id]]
               /\ UNCHANGED <<plHeader, plRows>>
          ELSE LET results == scrape_all_plan_details(plans)
               IN  /\ plRows' = plRows \o
                         [i \in 1..Len(results) |->
                             save_plan_link(zip, results[i])]
                   /\ plHeader' = (plHeader \/ Len(results) > 0)
                   /\ plLast' = "saved"
                   /\ plScraped' = plScraped \o
                         [i \in 1..Len(plans) |->
                             [zip |-> zip, plan_id |-> plans[i].plan_id]]
    /\ plRuns' = plRuns + 1
    /\ UNCHANGED outsidePlanLinks

NextPlanLinks == RunZipcodePlan

\* C16 (as claimed): every row appended to plan_links.csv for a discovered
\* plan carries a non-empty link_to_plan_page.
C16_EveryRowHasDetailLink ==
    \A i \in 1..Len(plRows) : plRows[i].link_to_plan_page # ""

\* C28: every plan whose detail page was scraped has its row in
\* plan_links.csv, also when a later plan of the same (ZIP, plan type) run
\* failed: the rows of the file name the scraped plans, in order.
C28_EveryScrapedPlanHasRow ==
    /\ Len(plRows) = Len(plScraped)
    /\ \A i \in 1..Len(plScraped) :
          /\ plRows[i].zip = plScraped[i].zip
          /\ plRows[i].plan_id = plScraped[i].plan_id

(***************************************************************************)
(* pdf_validator.py: score_pdf                                             *)
(***************************************************************************)
\* Page counts on both sides of every threshold score_pdf compares with.
PageCounts == {0, 19, 20, 79, 80, 99, 100, 400, 401}

\* The signals score_pdf extracts from (text, page_count, plan_id,
\* plan_name, company): which keyword families match the text, the page
\* count, and whether plan ID, plan name, "2025" and company occur in it.
ScoreInputs ==
    [sob : BOOLEAN, eoc : BOOLEAN, form : BOOLEAN, pages : PageCounts,
     pid : BOOLEAN, name : BOOLEAN, year : BOOLEAN, company : BOOLEAN]

Pts(b, n) == IF b THEN n ELSE 0

\* detected: each of the three `if` statements overwrites the label.
Detected(in) ==
    IF in.form THEN "Drug_Formulary"
    ELSE IF in.eoc THEN "Evidence_of_Coverage"
    ELSE IF in.sob THEN "Summary_of_Benefits"
    ELSE "Unknown"

\* The page-count heuristic for the detected label.
PagePlausible(in) ==
    \/ Detected(in) = "Evidence_of_Coverage" /\ in.pages >= 100
    \/ Detected(in) = "Summary_of_Benefits" /\ in.pages < 80
    \/ Detected(in) = "Drug_Formulary" /\ 20 <= in.pages /\ in.pages <= 400

\* score_pdf: 20 for each keyword family that matches (three separate
\* ifs), then the other signals, then min(score, 100).
score_pdf(in) ==
    LET raw == Pts(in.sob, 20) + Pts(in.eoc, 20) + Pts(in.form, 20)
               + Pts(PagePlausible(in), 10) + Pts(in.pid, 25)
               + Pts(in.name, 25) + Pts(in.year, 10) + Pts(in.company, 10)
    IN  [called |-> TRUE, label |-> Detected(in),
         score |-> IF raw < 100 THEN raw ELSE 100]

NotScored == [called |-> FALSE, label |-> "none", score |-> 0]

ParkedValidator ==
    /\ vIn = [sob |-> FALSE, eoc |-> FALSE, form |-> FALSE, pages |-> 0,
              pid |-> FALSE, name |-> FALSE, year |-> FALSE,
              company |-> FALSE]
    /\ vOut = NotScored

InitValidator ==
    /\ vIn \in ScoreInputs
    /\ vOut = NotScored

\* main's call score_pdf(text, page_count, plan_id, plan_name, company).
ScorePdf ==
    /\ ~vOut.called
    /\ vOut' = score_pdf(vIn)
    /\ UNCHANGED <<vIn, outsideValidator>>

NextValidator == ScorePdf

\* C17 (as claimed): the score is between 0 and 100 and equals the sum,
\* clamped at 100, of 20 for a document-type keyword match counted once, 10
\* for page-count plausibility, 25 for a plan-ID match, 25 for a plan-name
\* match, 10 for the year and 10 for a company match; so losing the plan-ID
\* match alone lowers the score by exactly 25.
C17_ScoreIsClampedSumOfSignals ==
    vOut.called =>
        LET claimed == Pts(vIn.sob \/ vIn.eoc \/ vIn.form, 20)
                       + Pts(PagePlausible(vIn), 10) + Pts(vIn.pid, 25)
                       + Pts(vIn.name, 25) + Pts(vIn.year, 10)
                       + Pts(vIn.company, 10)
        IN  /\ vOut.score \in 0..100
            /\ vOut.score = IF claimed < 100 THEN claimed ELSE 100
            /\ vIn.pid =>
                 vOut.score
                     - score_pdf([vIn EXCEPT !.pid = FALSE]).score = 25

(***************************************************************************)
(* normalize_plan_id: humana_pdf_direct.py and google_them/pdf_grabber.py  *)
(***************************************************************************)
MaxParts == 4

\* Strings are sequences of one-character strings.
IdParts == {<<"H", "5">>, <<"3", "1", "8">>, <<"1", "8">>, <<"1">>}

RECURSIVE JoinDash(_)
\* "-".join(parts)
JoinDash(parts) ==
    IF Len(parts) = 0 THEN <<>>
    ELSE IF Len(parts) = 1 THEN parts[1]
    ELSE parts[1] \o <<"-">> \o JoinDash(Tail(parts))

PlanIdInputs ==
    {JoinDash(ps) : ps \in UNION {[1..n -> IdParts] : n \in 1..MaxParts}}

\* s.replace(" ", "")
RemoveSpaces(s) == SelectSeq(s, LAMBDA c : c # " ")

RECURSIVE SplitDash(_)
\* s.split("-")
SplitDash(s) ==
    IF \A i \in 1..Len(s) : s[i] # "-" THEN <<s>>
    ELSE LET k == CHOOSE i \in 1..Len(s) :
                     s[i] = "-" /\ \A j \in 1..(i - 1) : s[j] # "-"
         IN  <<SubSeq(s, 1, k - 1)>> \o SplitDash(SubSeq(s, k + 1, Len(s)))

RECURSIVE zfill(_, _)
\* s.zfill(width) for a string without a sign
zfill(s, width) == IF Len(s) >= width THEN s ELSE zfill(<<"0">> \o s, width)

NormModules == {"humana_pdf_direct", "pdf_grabber"}

\* normalize_plan_id: both modules split on "-" after removing spaces and
\* on three parts return prefix + mid + suffix.zfill(3).  On any other
\* number of parts humana_pdf_direct raises ValueError and pdf_grabber
\* returns its argument.
normalize_plan_id(module, plan_id) ==
    LET parts == SplitDash(RemoveSpaces(plan_id))
    IN  IF Len(parts) # 3
        THEN IF module = "humana_pdf_direct"
             THEN [state |-> "raised", value |-> <<>>]
             ELSE [state |-> "returned", value |-> plan_id]
        ELSE [state |-> "returned",
              value |-> parts[1] \o parts[2] \o zfill(parts[3], 3)]

NotNormalized == [state |-> "not_called", value |-> <<>>]

ParkedNormalize ==
    /\ nModule = "humana_pdf_direct"
    /\ nIn = <<>>
    /\ nOut = NotNormalized

InitNormalize ==
    /\ nModule \in NormModules
    /\ nIn \in PlanIdInputs
    /\ nOut = NotNormalized

NormalizePlanId ==
    /\ nOut.state = "not_called"
    /\ nOut' = normalize_plan_id(nModule, nIn)
    /\ UNCHANGED <<nModule, nIn, outsideNormalize>>

NextNormalize == NormalizePlanId

\* C18 (as claimed): CONTRACT-PLAN-SEGMENT normalizes to the contract, the
\* plan number zero-padded to 3 digits and the segment zero-padded to 3
\* digits; an input without exactly 3 hyphen-separated parts fails with a
\* format error instead of returning a value.
C18_NormalizePadsPlanAndSegment ==
    nOut.state # "not_called" =>
        LET parts == SplitDash(nIn)
        IN  IF Len(parts) = 3
            THEN /\ nOut.state = "returned"
                 /\ nOut.value = parts[1] \o zfill(parts[2], 3)
                                     \o zfill(parts[3], 3)
            ELSE nOut.state = "raised"

(***************************************************************************)
(* luma-bot/form_filler.py: fill_form                                      *)
(***************************************************************************)
MaxFields == 2

\* Labels a field can show, two of them containing a FIELD_MAP synonym.
FieldLabels == {"Email", "Phone number", "Promo code"}

ProfileKeys == {"email", "phone"}

\* FIELD_MAP, in the order of the dict literal.
FIELD_MAP ==
    <<[key |-> "full_name", candidates |-> <<"name", "full name", "your name">>],
      [key |-> "first_name", candidates |-> <<"first name", "given name">>],
      [key |-> "last_name", candidates |-> <<"last name", "surname">>],
      [key |-> "email", candidates |-> <<"email", "e-mail", "mail">>],
      [key |-> "phone", candidates |-> <<"phone", "mobile", "telephone">>],
      [key |-> "company",
       candidates |-> <<"company", "organization", "employer">>],
      [key |-> "job_title",
       candidates |-> <<"job", "role", "title", "occupation">>],
      [key |-> "website", candidates |-> <<"website", "url", "portfolio">>],
      [key |-> "city", candidates |-> <<"city", "town">>],
      [key |-> "state", candidates |-> <<"state", "province">>]>>

UpperCase == "ABCDEFGHIJKLMNOPQRSTUVWXYZ"

LowerCase == "abcdefghijklmnopqrstuvwxyz"

\* The characters the pattern [^a-z0-9 ] leaves in place.
KeptChars == "abcdefghijklmnopqrstuvwxyz0123456789 "

CharAt(s, i) == SubSeq(s, i, i)

HasChar(s, c) == \E i \in 1..Len(s) : CharAt(s, i) = c

\* str.lower() of one character
LowerChar(c) ==
    IF HasChar(UpperCase, c)
    THEN CharAt(LowerCase, CHOOSE i \in 1..Len(UpperCase) :
                              CharAt(UpperCase, i) = c)
    ELSE c

\* str.strip()
RECURSIVE strip(_)
strip(s) ==
    IF Len(s) = 0 THEN s
    ELSE IF CharAt(s, 1) = " " THEN strip(SubSeq(s, 2, Len(s)))
    ELSE IF CharAt(s, Len(s)) = " " THEN strip(SubSeq(s, 1, Len(s) - 1))
    ELSE s

\* re.sub(r"[^a-z0-9 ]", "", s.lower())
RECURSIVE LowerAndDrop(_)
LowerAndDrop(s) ==
    IF Len(s) = 0 THEN ""
    ELSE LET c == LowerChar(CharAt(s, 1)) IN
         (IF HasChar(KeptChars, c) THEN c ELSE "")
             \o LowerAndDrop(SubSeq(s, 2, Len(s)))

\* normalize(text): lowercase and strip punctuation
normalize(text) == LowerAndDrop(strip(text))

\* `candidate in norm`
InText(candidate, norm) ==
    \E i \in 1..(Len(norm) - Len(candidate) + 1) :
        SubSeq(norm, i, i + Len(candidate) - 1) = candidate

\* The entries of FIELD_MAP one of whose candidates occurs in norm.
Matching(norm) ==
    {k \in 1..Len(FIELD_MAP) :
        \E j \in 1..Len(FIELD_MAP[k].candidates) :
            InText(FIELD_MAP[k].candidates[j], norm)}

\* map_field: the first profile key, in FIELD_MAP's order, one of whose
\* synonyms occurs in the normalized label; "none" (None) when no synonym
\* does.
map_field(label) ==
    LET m == Matching(normalize(label)) IN
    IF m = {} THEN "none"
    ELSE FIELD_MAP[CHOOSE k \in m : \A h \in m : k <= h].key

\* A form element: its label, its required attribute, and whether typing
\* into it or selecting the profile text raises (a select without that
\* option, an element that cannot be interacted with).
FormFields == [label : FieldLabels, required : BOOLEAN, fillRaises : BOOLEAN]

\* Mutant: an unmapped field is skipped even when it is required.
AbortsOnUnmapped_Never(required) == FALSE

\* if not profile_key: if field.get_attribute("required"): raise ValueError
AbortsOnUnmapped(required) == required

\* The body of the for loop raises for this field.
FieldFails(field, profile) ==
    IF map_field(field.label) = "none"
    THEN AbortsOnUnmapped(field.required)
    ELSE \/ profile[map_field(field.label)] = ""
         \/ field.fillRaises

\* fill_form: the first field whose body raises makes it print and return
\* False; otherwise form.submit() and return True (or submit's exception).
fill_form(form, profile, submitOk) ==
    IF \E i \in 1..Len(form) : FieldFails(form[i], profile)
    THEN LET k == CHOOSE i \in 1..Len(form) :
                     /\ FieldFails(form[i], profile)
                     /\ \A j \in 1..(i - 1) : ~FieldFails(form[j], profile)
         IN  [ret |-> "False", submitted |-> FALSE,
              filled |-> {j \in 1..(k - 1) : map_field(form[j].label) # "none"}]
    ELSE [ret |-> IF submitOk THEN "True" ELSE "raised",
          submitted |-> submitOk,
          filled |-> {j \in 1..Len(form) : map_field(form[j].label) # "none"}]

NotFilled == [ret |-> "not_called", submitted |-> FALSE, filled |-> {}]

ParkedForm ==
    /\ fForm = <<>>
    /\ fProfile = [k \in ProfileKeys |-> ""]
    /\ fOut = NotFilled

InitForm ==
    /\ fForm \in UNION {[1..n -> FormFields] : n \in 0..MaxFields}
    /\ fProfile \in [ProfileKeys -> {"", "value"}]
    /\ fOut = NotFilled

FillForm ==
    /\ fOut.ret = "not_called"
    /\ \E submitOk \in BOOLEAN : fOut' = fill_form(fForm, fProfile, submitOk)
    /\ UNCHANGED <<fForm, fProfile, outsideForm>>

NextForm == FillForm

Unmapped(f) == map_field(f.label) = "none"

EventPages ==
    {p \in [free : BOOLEAN, freeStale : BOOLEAN,
            cta : {"no_cta", "cta_no_price", "cta_price"},
            ctaLookup : {"ok", "raises", "parent_raises"},
            anyPrice : BOOLEAN, priceLookupRaises : BOOLEAN] :
        /\ p.freeStale => p.free
        /\ p.ctaLookup = "parent_raises" => p.cta # "no_cta"
        /\ p.cta = "cta_price" => p.anyPrice}

\* The texts list: elements whose text was read and contains "free".
SawFree(p) == p.free /\ ~p.freeStale

\* around_cta_texts holds a "$": the lookup and the parent read both worked
\* for a CTA whose parent text has a price.
SawPriceNearCta(p) == p.ctaLookup = "ok" /\ p.cta = "cta_price"

\* is_free_event_on_page: with a "free" text, False only if a "$" was read
\* near a CTA (an exception in that check is swallowed and True returned);
\* without one, False whatever the final price lookup finds.
is_free_event_on_page(p) ==
    IF SawFree(p)
    THEN IF SawPriceNearCta(p) THEN "False" ELSE "True"
    ELSE "False"

ParkedFreeCheck ==
    /\ ePage = [free |-> FALSE, freeStale |-> FALSE, cta |-> "no_cta",
                ctaLookup |-> "ok", anyPrice |-> FALSE,
                priceLookupRaises |-> FALSE]
    /\ eOut = "not_called"

InitFreeCheck ==
    /\ ePage \in EventPages
    /\ eOut = "not_called"

IsFreeEventOnPage ==
    /\ eOut = "not_called"
    /\ eOut' = is_free_event_on_page(ePage)
    /\ UNCHANGED <<ePage, outsideFreeCheck>>

NextFreeCheck == IsFreeEventOnPage

\* C20 (as claimed): the page is classified free exactly when some visible
\* text contains "free" and no $ price appears near a register-style
\* call-to-action; a page with a $ price and no "free" text, and a page
\* with neither signal, are classified not free.
C20_FreeExactlyWhenFreeTextAndNoCtaPrice ==
    eOut # "not_called" =>
        /\ eOut = "True" <=> (ePage.free /\ ePage.cta # "cta_price")
        /\ ~ePage.free => eOut = "False"

(***************************************************************************)
(* Document categorizers: uhc_pdf_grabber.py categorize_pdf and            *)
(* google_them/pdf_grabber.py categorize_link                              *)
(*                                                                         *)
(* A text is a sequence of words; the words of the vocabulary below are    *)
(* whole words, so a regular expression's \b holds at every word edge and  *)
(* \s+ is the gap between two neighbouring words.                          *)
(***************************************************************************)
MaxPhrases == 2

\* What an anchor text, a title, a snippet or a URL is put together from.
Phrases == {<<"Summary", "of", "Benefits">>, <<"Evidence", "of", "Coverage">>,
            <<"Formulary">>, <<"drug", "list">>, <<"Part", "D">>,
            <<"Provider", "Directory">>, <<"SB25">>, <<"MAPD">>}

RECURSIVE Texts(_)
Texts(n) == IF n = 0 THEN {<<>>}
            ELSE Texts(n - 1) \cup
                 UNION {{t \o p : p \in Phrases} : t \in Texts(n - 1)}

\* str.lower(), one word at a time
LowerWord(w) ==
    CASE w = "Summary" -> "summary"
      [] w = "Benefits" -> "benefits"
      [] w = "Evidence" -> "evidence"
      [] w = "Coverage" -> "coverage"
      [] w = "Formulary" -> "formulary"
      [] w = "Part" -> "part"
      [] w = "D" -> "d"
      [] w = "Provider" -> "provider"
      [] w = "Directory" -> "directory"
      [] w = "SB25" -> "sb25"
      [] w = "MAPD" -> "mapd"
      [] OTHER -> w

Lower(t) == [i \in 1..Len(t) |-> LowerWord(t[i])]

\* `needle in txt` / re.search of a pattern made of whole words
Contains(t, needle) ==
    \E i \in 0..(Len(t) - Len(needle)) :
        \A k \in 1..Len(needle) : t[i + k] = needle[k]

ContainsAny(t, needles) == \E n \in needles : Contains(t, n)

\* uhc_pdf_grabber.py: categorize_pdf(text)
categorize_pdf(text) ==
    LET txt == Lower(text) IN
    IF Contains(txt, <<"summary", "of", "benefits">>)
    THEN "Summary_of_Benefits"
    ELSE IF Contains(txt, <<"evidence", "of", "coverage">>)
    THEN "Evidence_of_Coverage"
    ELSE IF Contains(txt, <<"formulary">>) \/ Contains(txt, <<"drug", "list">>)
    THEN "Drug_Formulary"
    ELSE "Other"

\* the words sb\d{2,4} and \beoc\d{2,4} find in the vocabulary
SbCodes == {<<"sb25">>}

sob_patterns == {<<"summary", "of", "benefits">>, <<"benefit", "summary">>,
                 <<"sob">>, <<"sum", "benefits">>} \cup SbCodes

eoc_patterns == {<<"evidence", "of", "coverage">>, <<"eoc">>,
                 <<"coverage", "evidence">>}

formulary_patterns == {<<"formulary">>, <<"drug", "list">>,
                       <<"prescription", "drug", "list">>, <<"rx", "list">>,
                       <<"comprehensive", "drug", "list">>, <<"part", "d">>,
                       <<"mapd">>}

\* google_them/pdf_grabber.py: categorize_link(url, text); None is "None"
categorize_link(url, text) ==
    LET t == Lower(url \o text) IN
    IF ContainsAny(t, sob_patterns) THEN "Summary_of_Benefits"
    ELSE IF ContainsAny(t, eoc_patterns) THEN "Evidence_of_Coverage"
    ELSE IF ContainsAny(t, formulary_patterns) THEN "Drug_Formulary"
    ELSE "None"

Categorizers == {"categorize_pdf", "categorize_link"}

NotCategorized == "not called"

ParkedCategorize ==
    /\ cUrl = <<>>
    /\ cText = <<>>
    /\ cFn = "none"
    /\ cOut = NotCategorized

InitCategorize ==
    /\ cUrl \in Texts(1)
    /\ cText \in Texts(MaxPhrases)
    /\ cFn = "none"
    /\ cOut = NotCategorized

\* One grabber categorizes one link.
Categorize ==
    /\ cOut = NotCategorized
    /\ \E fn \in Categorizers :
        /\ cFn' = fn
        /\ cOut' = IF fn = "categorize_pdf" THEN categorize_pdf(cText)
                   ELSE categorize_link(cUrl, cText)
    /\ UNCHANGED <<cUrl, cText, outsideCategorize>>

NextCategorize == Categorize

\* What the categorizer that was called was given.
CategorizedText ==
    Lower(IF cFn = "categorize_pdf" THEN cText ELSE cUrl \o cText)

HintsSob == Contains(CategorizedText, <<"summary", "of", "benefits">>)

HintsEoc == Contains(CategorizedText, <<"evidence", "of", "coverage">>)

HintsFormulary ==
    \/ Contains(CategorizedText, <<"formulary">>)
    \/ Contains(CategorizedText, <<"drug", "list">>)
    \/ Contains(CategorizedText, <<"part", "d">>)

Unrelated ==
    /\ CategorizedText # <<>>
    /\ Range(CategorizedText) \subseteq {"provider", "directory"}

DocumentLabels ==
    {"Summary_of_Benefits", "Evidence_of_Coverage", "Drug_Formulary"}

\* C21: whichever categorizer is called, a text whose only hint is 'Summary
\* of Benefits' is labelled Summary_of_Benefits, one whose only hint is
\* 'Evidence of Coverage' is labelled Evidence_of_Coverage, one whose only
\* hint is 'Formulary', 'drug list' or 'Part D' is labelled Drug_Formulary,
\* and unrelated text such as 'Provider Directory' gets none of the three
\* labels.
C21_CategorizerReturnsMatchingLabel ==
    cOut # NotCategorized =>
        /\ (HintsSob /\ ~ContainsAny(CategorizedText,
                                     eoc_patterns \cup formulary_patterns))
               => cOut = "Summary_of_Benefits"
        /\ (HintsEoc /\ ~ContainsAny(CategorizedText,
                                     sob_patterns \cup formulary_patterns))
               => cOut = "Evidence_of_Coverage"
        /\ (HintsFormulary /\ ~ContainsAny(CategorizedText,
                                           sob_patterns \cup eoc_patterns))
               => cOut = "Drug_Formulary"
        /\ Unrelated => cOut \notin DocumentLabels

(***************************************************************************)
(* WA registry search: wa_corps/ccfs_lookup.py process_ubi,                *)
(* ensure_results_have_rows_or_retry, main                                 *)
(***************************************************************************)
MaxUbis == 3

\* What the site answers during one UBI: whether each wait ends in time, how
\* many rows each results table has, whether a Back control is on the page,
\* whether the Filing History button is there.
Waits == {"ok", "timeout"}

RowCounts == {0, 1}

\* Mutant: an empty results table counts as having rows.
RowsFound_Always(n) == TRUE

\* `row_count() > 0`
RowsFound(n) == n > 0

\* The rest of process_ubi once the results table has rows: list.html,
\* click_first_result, the details panel, detail.html, the JSON, then the
\* Filing History button.
AfterRows(steps, click, detail, filing) ==
    IF click = "timeout"
    THEN [steps |-> steps \o <<"list_html">>, result |-> "click_timeout"]
    ELSE IF detail = "timeout"
    THEN [steps |-> steps \o <<"list_html", "click_first_result">>,
          result |-> "timeout"]
    ELSE IF ~filing
    THEN [steps |-> steps \o <<"list_html", "click_first_result",
                               "detail_html", "json">>,
          result |-> "unexpected_error"]
    ELSE [steps |-> steps \o <<"list_html", "click_first_result",
                               "detail_html", "json", "filing_history">>,
          result |-> "done"]

\* ensure_results_have_rows_or_retry(driver, ubi): the steps it takes and
\* what it returns; "raised" when the re-submitted search times out.
ensure_results_have_rows_or_retry(rows1, hasBack, s2, rows2) ==
    IF RowsFound(rows1)
    THEN [steps |-> <<"row_count">>, ret |-> "True"]
    ELSE LET recover == IF hasBack THEN "back" ELSE "home_reload" IN
         IF s2 = "timeout"
         THEN [steps |-> <<"row_count", recover, "submit">>, ret |-> "raised"]
         ELSE [steps |-> <<"row_count", recover, "submit", "row_count">>,
               ret |-> IF RowsFound(rows2) THEN "True" ELSE "False"]

\* process_ubi(driver, ubi, index, total): every exception is caught inside.
process_ubi_search(s1, rows1, hasBack, s2, rows2, click, detail, filing) ==
    IF s1 = "timeout"
    THEN [steps |-> <<"submit">>, result |-> "timeout"]
    ELSE LET e == ensure_results_have_rows_or_retry(rows1, hasBack, s2, rows2)
             steps == <<"submit">> \o e.steps
         IN  IF e.ret = "raised"
             THEN [steps |-> steps, result |-> "timeout"]
             ELSE IF e.ret = "False"
             THEN [steps |-> steps \o <<"list_html">>, result |-> "no_results"]
             ELSE AfterRows(steps, click, detail, filing)

NoUbi == [steps |-> <<>>, result |-> "none", rows |-> <<>>]

ParkedSearch ==
    /\ sDone = 0
    /\ sLast = NoUbi
    /\ sPrev = NoUbi

InitSearch ==
    /\ sDone = 0
    /\ sLast = NoUbi
    /\ sPrev = NoUbi

\* One iteration of main's loop `for i, ubi in enumerate(slice_ubis, ...)`.
\* rows are the row counts the scraper read, in the order it read them.
ProcessUbiSearch ==
    /\ sDone < MaxUbis
    /\ \E s1 \in Waits, rows1 \in RowCounts, hasBack \in BOOLEAN,
          s2 \in Waits, rows2 \in RowCounts, click \in Waits,
          detail \in Waits, filing \in BOOLEAN :
          LET r == process_ubi_search(s1, rows1, hasBack, s2, rows2, click,
                                      detail, filing)
              n == Count(r.steps, "row_count")
          IN  sLast' = [steps |-> r.steps, result |-> r.result,
                        rows |-> IF n = 0 THEN <<>>
                                 ELSE IF n = 1 THEN <<rows1>>
                                 ELSE <<rows1, rows2>>]
    /\ sPrev' = sLast
    /\ sDone' = sDone + 1
    /\ UNCHANGED outsideSearch

NextSearch == ProcessUbiSearch

MaxCaptures == 2

\* The polls of the Downloads folder, one a second, before the function gives
\* up (`for _ in range(30)`; fewer here).
PollRounds == 3

NoPdf == [name |-> "none", mtime |-> 0]

\* PDFs that may lie in ~/Downloads before the scraper starts.
OldPdfs == {[name |-> "old1.pdf", mtime |-> 1],
            [name |-> "old2.pdf", mtime |-> 2],
            [name |-> "invoice.pdf", mtime |-> 2]}

\* sorted(downloads.glob("*.pdf"), key=st_mtime, reverse=True)[0]
Newest(pdfs) == {p \in pdfs : \A q \in pdfs : q.mtime <= p.mtime}

ParkedCapture ==
    /\ aFiles = {}
    /\ aClock = 0
    /\ aPhase = "idle"
    /\ aClickAt = 0
    /\ aPolls = 0
    /\ aPending = FALSE
    /\ aTaken = NoPdf
    /\ aRuns = 0

InitCapture ==
    /\ aFiles \in SUBSET OldPdfs
    /\ aClock = 3
    /\ aPhase = "idle"
    /\ aClickAt = 0
    /\ aPolls = 0
    /\ aPending = FALSE
    /\ aTaken = NoPdf
    /\ aRuns = 0

\* save_latest_annual_report up to the click on the download icon of the
\* first fulfilled annual report; the browser starts the download.  aClickAt
\* is the time just before the click (the function itself records none).
ClickDownloadIcon ==
    /\ aPhase \in {"idle", "done"}
    /\ aRuns < MaxCaptures
    /\ aPhase' = "polling"
    /\ aClickAt' = aClock
    /\ aClock' = aClock + 1
    /\ aPolls' = 0
    /\ aPending' = TRUE
    /\ aTaken' = NoPdf
    /\ aRuns' = aRuns + 1
    /\ UNCHANGED <<aFiles, outsideCapture>>

\* The browser finishes writing the downloaded PDF, whenever it does.
BrowserSavesPdf ==
    /\ aPending
    /\ aFiles' = aFiles \cup
                 {[name |-> IF aRuns = 1 THEN "report1.pdf" ELSE "report2.pdf",
                   mtime |-> aClock]}
    /\ aClock' = aClock + 1
    /\ aPending' = FALSE
    /\ UNCHANGED <<aPhase, aClickAt, aPolls, aTaken, aRuns, outsideCapture>>

\* One round of the polling loop: the newest PDF of the folder, if there is
\* any PDF at all, is moved to business_pdf/{UBI}/annual_report.pdf.
PollDownloads ==
    /\ aPhase = "polling"
    /\ IF aFiles # {}
       THEN \E newest \in Newest(aFiles) :
               /\ aFiles' = aFiles \ {newest}
               /\ aTaken' = newest
               /\ aPhase' = "done"
               /\ aPolls' = aPolls
       ELSE /\ aPolls' = aPolls + 1
            /\ aPhase' = IF aPolls + 1 >= PollRounds THEN "done" ELSE "polling"
            /\ UNCHANGED <<aFiles, aTaken>>
    /\ aClock' = aClock + 1
    /\ UNCHANGED <<aClickAt, aPending, aRuns, outsideCapture>>

NextCapture == ClickDownloadIcon \/ BrowserSavesPdf \/ PollDownloads

\* C24: the file moved to the UBI's annual_report.pdf is a PDF modified after
\* the moment just before the download click; a PDF that lay in the
\* download directory before the click is never taken.
C24_TakenPdfNewerThanClick ==
    aTaken # NoPdf => aTaken.mtime > aClickAt

(***************************************************************************)
(* Google Calendar tab: luma-bot/calendar_clicker.py                       *)
(* add_to_google_calendar_for_city, _wait_for_new_tab                      *)
(***************************************************************************)
MaxCalCalls == 3

\* Rounds of _wait_for_new_tab's loop before LONG_WAIT is over.
WaitRounds == 2

\* Window handles: 0 is the tab the scraper works in, the tabs the browser
\* opens are numbered from 1.
OriginalTab == 0

GcalOutcomes == {"saved", "failed", "raised"}

ParkedCalendar ==
    /\ tTabs = {}
    /\ tFocus = 0
    /\ tPc = "idle"
    /\ tBefore = {}
    /\ tOld = {}
    /\ tPending = FALSE
    /\ tRounds = 0
    /\ tRet = "none"
    /\ tCalls = 0

InitCalendar ==
    /\ tTabs = {OriginalTab}
    /\ tFocus = OriginalTab
    /\ tPc = "idle"
    /\ tBefore = {}
    /\ tOld = {}
    /\ tPending = FALSE
    /\ tRounds = 0
    /\ tRet = "none"
    /\ tCalls = 0

\* add_to_google_calendar_for_city up to _choose_google_calendar_on_luma:
\* the click on "Google Calendar" asks the browser for a new tab.
ChooseGoogleCalendarOnLuma ==
    /\ tPc \in {"idle", "returned"}
    /\ tCalls < MaxCalCalls
    /\ tCalls' = tCalls + 1
    /\ tBefore' = tTabs
    /\ tRounds' = 0
    /\ tOld' = {}
    /\ \E clicked \in BOOLEAN :
          IF clicked
          THEN /\ tPc' = "clicked"
               /\ tPending' = TRUE
               /\ tRet' = "none"
          ELSE /\ tPc' = "returned"
               /\ tRet' = "Could not open Google Calendar from Luma UI."
               /\ UNCHANGED tPending
    /\ UNCHANGED <<tTabs, tFocus, outsideCalendar>>

\* The browser opens the tab it was asked for, at a time of its own.
BrowserOpensTab ==
    /\ tPending
    /\ tTabs' = tTabs \cup {tCalls}
    /\ tPending' = FALSE
    /\ UNCHANGED <<tFocus, tPc, tBefore, tOld, tRounds, tRet, tCalls,
                   outsideCalendar>>

\* `old_handles = driver.window_handles[:]`, read after the click.
ReadOldHandles ==
    /\ tPc = "clicked"
    /\ tOld' = tTabs
    /\ tPc' = "waiting"
    /\ UNCHANGED <<tTabs, tFocus, tBefore, tPending, tRounds, tRet, tCalls,
                   outsideCalendar>>

\* One round of _wait_for_new_tab: a handle that is not in old_handles is
\* switched to; after the last round the function gives up and returns.
WaitForNewTab ==
    /\ tPc = "waiting"
    /\ IF Cardinality(tTabs) > Cardinality(tOld)
       THEN \E h \in tTabs \ tOld :
               /\ tFocus' = h
               /\ tPc' = "in_tab"
               /\ UNCHANGED <<tRounds, tRet>>
       ELSE IF tRounds + 1 >= WaitRounds
       THEN /\ tPc' = "returned"
            /\ tRet' = "Google Calendar tab did not open."
            /\ tRounds' = tRounds + 1
            /\ UNCHANGED tFocus
       ELSE /\ tRounds' = tRounds + 1
            /\ UNCHANGED <<tPc, tRet, tFocus>>
    /\ UNCHANGED <<tTabs, tBefore, tOld, tPending, tCalls, outsideCalendar>>

\* The flow in the Google tab: whether it saves, fails at a step or raises,
\* _close_current_tab_and_return closes the tab and switches back.
GcalFlow ==
    /\ tPc = "in_tab"
    /\ \E outcome \in GcalOutcomes :
          tRet' = IF outcome = "saved" THEN "Event added."
                  ELSE IF outcome = "failed" THEN "Failed in Google Calendar."
                  ELSE "GCal flow error"
    /\ tTabs' = tTabs \ {tFocus}
    /\ tFocus' = OriginalTab
    /\ tPc' = "returned"
    /\ UNCHANGED <<tBefore, tOld, tPending, tRounds, tCalls, outsideCalendar>>

NextCalendar ==
    \/ ChooseGoogleCalendarOnLuma
    \/ BrowserOpensTab
    \/ ReadOldHandles
    \/ WaitForNewTab
    \/ GcalFlow

\* C25: once add_to_google_calendar_for_city has returned, with success or
\* failure, the open tabs are those that were open before the call and the
\* focus is on the original tab, whenever the new tab appeared.
C25_TabsRestoredAfterReturn ==
    tPc = "returned" => (tTabs = tBefore /\ tFocus = OriginalTab)

(***************************************************************************)
(* Loops that wait on page state: luma_bot/register_events.py              *)
(* robust_scroll_to_bottom, centene get_enrollment_pdfs,                   *)
(* utils/medicare_utils.py scrape_all_plan_details                         *)
(***************************************************************************)
\* robust_scroll_to_bottom's max_rounds (60 by default; fewer here)
MaxRounds == 6

\* document.body.scrollHeight takes a value of 1..MaxHeight at each reading;
\* the page decides which.
MaxHeight == 4

\* The result pages the plan finder has for one search.
MaxPages == 4

\* Loops one run of a script enters, one after the other.
MaxLoops == 2

Heights == 1..MaxHeight

PageLoops == {"robust_scroll_to_bottom", "get_enrollment_pdfs",
              "scrape_all_plan_details"}

ParkedWaits ==
    /\ wLoop = "none"
    /\ wPc = "done"
    /\ wRounds = 0
    /\ wSame = 0
    /\ wLast = 0
    /\ wPage = 0
    /\ wPages = 0
    /\ wEntered = 0

InitWaits ==
    /\ wLoop = "none"
    /\ wPc = "done"
    /\ wRounds = 0
    /\ wSame = 0
    /\ wLast = 0
    /\ wPage = 0
    /\ wPages = 0
    /\ wEntered = 0

\* The state on entry to a loop: robust_scroll_to_bottom starts from
\* last_height = 0, get_enrollment_pdfs reads the height once before its
\* loop, scrape_all_plan_details starts on page 1.
EnterLoop ==
    /\ wPc = "done"
    /\ wEntered < MaxLoops
    /\ wEntered' = wEntered + 1
    /\ wLoop' \in PageLoops
    /\ wPc' = "running"
    /\ wRounds' = 0
    /\ wSame' = 0
    /\ wLast' \in IF wLoop' = "get_enrollment_pdfs" THEN Heights ELSE {0}
    /\ wPage' = IF wLoop' = "scrape_all_plan_details" THEN 1 ELSE 0
    /\ wPages' \in IF wLoop' = "scrape_all_plan_details" THEN 1..MaxPages
                   ELSE {0}
    /\ UNCHANGED outsideWaits

\* One round of `for _ in range(max_rounds)` in robust_scroll_to_bottom.
RobustScrollRound ==
    /\ wLoop = "robust_scroll_to_bottom"
    /\ wPc = "running"
    /\ \E height \in Heights :
          LET same == IF height = wLast THEN wSame + 1 ELSE 0 IN
          /\ wSame' = same
          /\ wLast' = height
          /\ wRounds' = wRounds + 1
          /\ wPc' = IF (height = wLast /\ same >= 2) \/ wRounds + 1 >= MaxRounds
                    THEN "done" ELSE "running"
    /\ UNCHANGED <<wLoop, wPage, wPages, wEntered, outsideWaits>>

\* One round of `while True` in get_enrollment_pdfs: scroll, sleep, read the
\* height, leave only when it equals the height read before.
CenteneScrollRound ==
    /\ wLoop = "get_enrollment_pdfs"
    /\ wPc = "running"
    /\ \E new_height \in Heights :
          /\ wPc' = IF new_height = wLast THEN "done" ELSE "running"
          /\ wLast' = new_height
    /\ UNCHANGED <<wLoop, wRounds, wSame, wPage, wPages, wEntered,
                   outsideWaits>>

\* One round of `while True` in scrape_all_plan_details: the plans of the
\* page, then the Next button.  The loop is left when Next is disabled (the
\* last page), when anything in the pagination step raises, or when a wait
\* inside the page's plans times out (the exception leaves the function).
PaginationRound ==
    /\ wLoop = "scrape_all_plan_details"
    /\ wPc = "running"
    /\ \E raised \in BOOLEAN :
          IF raised \/ wPage >= wPages
          THEN /\ wPc' = "done"
               /\ UNCHANGED wPage
          ELSE /\ wPage' = wPage + 1
               /\ UNCHANGED wPc
    /\ UNCHANGED <<wLoop, wRounds, wSame, wLast, wPages, wEntered,
                   outsideWaits>>

NextWaits ==
    EnterLoop \/ RobustScrollRound \/ CenteneScrollRound \/ PaginationRound

\* C26: every loop that waits on page state, once entered, ends after
\* finitely many rounds whatever heights the page reports: the event-list
\* scroll loop, the results pagination loop and the Centene lazy-load scroll
\* loop.
C26_EveryPageLoopTerminates == (wPc = "running") ~> (wPc = "done")

(***************************************************************************)
(* Stage 2 downloads: google_them/filter_and_download.py download_pdf      *)
(***************************************************************************)
MaxDownloads == 3

\* The chunks r.iter_content yields for a whole PDF.
PdfChunks == 2

DestPaths == {"H1234-001_Summary_of_Benefits.pdf",
              "H1234-001_Evidence_of_Coverage.pdf"}

CandidateUrls == {"", "https://carrier.example/doc.pdf"}

\* What the server and the network do to one request: the response is an
\* error status, the connection fails before any byte, the stream breaks
\* after some chunks, or the whole body arrives.
GetOutcomes == {"http_error", "connect_error", "interrupted", "complete"}

AbsentPdf == [exists |-> FALSE, chunks |-> 0]

\* download_pdf(session, url, dest_path): the file afterwards and the value
\* returned.  written is how many chunks were written before the stream
\* broke.
download_pdf(file, url, outcome, written) ==
    IF url = ""
    THEN [file |-> file, ret |-> FALSE, skipped |-> FALSE]
    ELSE IF file.exists
    THEN [file |-> file, ret |-> TRUE, skipped |-> TRUE]
    ELSE IF outcome \in {"http_error", "connect_error"}
    THEN [file |-> file, ret |-> FALSE, skipped |-> FALSE]
    ELSE IF outcome = "interrupted"
    \* open(dest_path, "wb") has created the file; the chunks written so far
    \* stay in it when iter_content raises.
    THEN [file |-> [exists |-> TRUE, chunks |-> written], ret |-> FALSE,
          skipped |-> FALSE]
    ELSE [file |-> [exists |-> TRUE, chunks |-> PdfChunks], ret |-> TRUE,
          skipped |-> FALSE]

NoDownload == [path |-> "none", ret |-> FALSE, skipped |-> FALSE,
               outcome |-> "none"]

ParkedStage2Dl ==
    /\ qFiles = [p \in DestPaths |-> AbsentPdf]
    /\ qDone = [p \in DestPaths |-> FALSE]
    /\ qLast = NoDownload
    /\ qCalls = 0

InitStage2Dl ==
    /\ qFiles = [p \in DestPaths |-> AbsentPdf]
    /\ qDone = [p \in DestPaths |-> FALSE]
    /\ qLast = NoDownload
    /\ qCalls = 0

\* One `if download_pdf(session, url, pdf_path)` of main, in this run or in
\* a later run over the same candidates file.  qDone remembers the paths
\* whose download ran to its end.
DownloadPdf ==
    /\ qCalls < MaxDownloads
    /\ \E p \in DestPaths, url \in CandidateUrls, outcome \in GetOutcomes,
          written \in 0..(PdfChunks - 1) :
          LET r == download_pdf(qFiles[p], url, outcome, written) IN
          /\ qFiles' = [qFiles EXCEPT ![p] = r.file]
          /\ qDone' = [qDone EXCEPT ![p] =
                          @ \/ (r.ret /\ ~r.skipped)]
          /\ qLast' = [path |-> p, ret |-> r.ret, skipped |-> r.skipped,
                       outcome |-> IF url = "" \/ r.skipped THEN "none"
                                   ELSE outcome]
    /\ qCalls' = qCalls + 1
    /\ UNCHANGED outsideStage2Dl

NextStage2Dl == DownloadPdf

\* C27: a destination PDF exists on disk only if its download ran to its
\* end, and a path is skipped as already downloaded only if it was once
\* downloaded completely.
C27_FileExistsOnlyAfterCompleteDownload ==
    /\ \A p \in DestPaths : qFiles[p].exists => qDone[p]
    /\ qLast.skipped => qDone[qLast.path]

(***************************************************************************)
(* luma-bot/form_filler.py: map_field on its own                           *)
(***************************************************************************)
\* Labels a registration form may show: a qualifier and a noun.
LabelQualifiers == {"", "Your ", "Full ", "First ", "Last ", "Given ",
                    "Company ", "Work ", "Promo "}

LabelNouns == {"Name", "name", "Surname", "E-mail", "Email", "Phone",
               "Company", "Organization", "Title", "Website", "City",
               "State", "code"}

Labels == {q \o n : q \in LabelQualifiers, n \in LabelNouns}

NotMapped == "not called"

ParkedMapField ==
    /\ mLabel = ""
    /\ mKey = NotMapped

InitMapField ==
    /\ mLabel \in Labels
    /\ mKey = NotMapped

\* fill_form's `key = map_field(label)` for one element.
MapField ==
    /\ mKey = NotMapped
    /\ mKey' = map_field(mLabel)
    /\ UNCHANGED <<mLabel, outsideMapField>>

NextMapField == MapField

\* The candidates of FIELD_MAP[k] that occur in norm.
Occurring(k, norm) ==
    {FIELD_MAP[k].candidates[j] : j \in 1..Len(FIELD_MAP[k].candidates)}
        \cap {c \in UNION {Range(FIELD_MAP[h].candidates) :
                             h \in 1..Len(FIELD_MAP)} : InText(c, norm)}

\* The keys owning a longest synonym that occurs in the normalized label.
MostSpecificKeys(label) ==
    LET norm == normalize(label)
        m == Matching(norm)
        longest(k) == CHOOSE n \in 0..Len(norm) :
                         /\ \E c \in Occurring(k, norm) : Len(c) = n
                         /\ \A c \in Occurring(k, norm) : Len(c) <= n
    IN  {FIELD_MAP[k].key : k \in {h \in m : \A g \in m :
                                      longest(g) <= longest(h)}}

\* C30: map_field returns the profile key of the most specific (longest)
\* synonym the label contains, and no key when the label contains none; in
\* particular 'First Name' maps to first_name, 'Last Name' to last_name,
\* 'Company name' to company, 'Your Name' to full_name and 'E-mail' to
\* email.
C30_MapsToMostSpecificSynonym ==
    mKey # NotMapped =>
        /\ IF MostSpecificKeys(mLabel) = {} THEN mKey = "none"
           ELSE mKey \in MostSpecificKeys(mLabel)
        /\ (mLabel = "First Name" => mKey = "first_name")
        /\ (mLabel = "Last Name" => mKey = "last_name")
        /\ (mLabel = "Company name" => mKey = "company")
        /\ (mLabel = "Your Name" => mKey = "full_name")
        /\ (mLabel = "E-mail" => mKey = "email")

(***************************************************************************)
(* Specifications                                                          *)
(***************************************************************************)
ParkedEarly == ParkedLuma /\ ParkedDrv /\ ParkedGrab /\ ParkedBatch /\
               ParkedDownload

ParkedLater == ParkedRegistry /\ ParkedPool /\ ParkedHarvest /\
               ParkedPlanLinks /\ ParkedValidator /\ ParkedNormalize /\
               ParkedForm /\ ParkedFreeCheck /\ ParkedCategorize /\
               ParkedSearch /\ ParkedCapture /\ ParkedCalendar /\
               ParkedWaits /\ ParkedStage2Dl /\ ParkedMapField

InitSpecLuma ==
    InitLuma /\ ParkedDrv /\ ParkedGrab /\ ParkedBatch /\ ParkedDownload /\
    ParkedLater

SpecLuma == InitSpecLuma /\ [][NextLuma]_vars

InitSpecDriver ==
    ParkedLuma /\ InitDrv /\ ParkedGrab /\ ParkedBatch /\ ParkedDownload /\
    ParkedLater

SpecDriver == InitSpecDriver /\ [][NextDrv]_vars

InitSpecGrab ==
    ParkedLuma /\ ParkedDrv /\ InitGrab /\ ParkedBatch /\ ParkedDownload /\
    ParkedLater

SpecGrab == InitSpecGrab /\ [][NextGrab]_vars

InitSpecBatch ==
    ParkedLuma /\ ParkedDrv /\ ParkedGrab /\ InitBatch /\ ParkedDownload /\
    ParkedLater

SpecBatch == InitSpecBatch /\ [][NextBatch]_vars

InitSpecDownload ==
    ParkedLuma /\ ParkedDrv /\ ParkedGrab /\ ParkedBatch /\ InitDownload /\
    ParkedLater

SpecDownload == InitSpecDownload /\ [][NextDownload]_vars

InitSpecRegistry ==
    ParkedEarly /\ InitRegistry /\ ParkedPool /\ ParkedHarvest /\
    ParkedPlanLinks /\ ParkedValidator /\ ParkedNormalize /\ ParkedForm /\
    ParkedFreeCheck /\ ParkedCategorize /\ ParkedSearch /\ ParkedCapture /\
    ParkedCalendar /\ ParkedWaits /\ ParkedStage2Dl /\ ParkedMapField

SpecRegistry == InitSpecRegistry /\ [][NextRegistry]_vars

InitSpecPool ==
    ParkedEarly /\ ParkedRegistry /\ InitPool /\ ParkedHarvest /\
    ParkedPlanLinks /\ ParkedValidator /\ ParkedNormalize /\ ParkedForm /\
    ParkedFreeCheck /\ ParkedCategorize /\ ParkedSearch /\ ParkedCapture /\
    ParkedCalendar /\ ParkedWaits /\ ParkedStage2Dl /\ ParkedMapField

SpecPool == InitSpecPool /\ [][NextPool]_vars

InitSpecHarvest ==
    ParkedEarly /\ ParkedRegistry /\ ParkedPool /\ InitHarvest /\
    ParkedPlanLinks /\ ParkedValidator /\ ParkedNormalize /\ ParkedForm /\
    ParkedFreeCheck /\ ParkedCategorize /\ ParkedSearch /\ ParkedCapture /\
    ParkedCalendar /\ ParkedWaits /\ ParkedStage2Dl /\ ParkedMapField

SpecHarvest == InitSpecHarvest /\ [][NextHarvest]_vars

InitSpecPlanLinks ==
    ParkedEarly /\ ParkedRegistry /\ ParkedPool /\ ParkedHarvest /\
    InitPlanLinks /\ ParkedValidator /\ ParkedNormalize /\ ParkedForm /\
    ParkedFreeCheck /\ ParkedCategorize /\ ParkedSearch /\ ParkedCapture /\
    ParkedCalendar /\ ParkedWaits /\ ParkedStage2Dl /\ ParkedMapField

SpecPlanLinks == InitSpecPlanLinks /\ [][NextPlanLinks]_vars

InitSpecValidator ==
    ParkedEarly /\ ParkedRegistry /\ ParkedPool /\ ParkedHarvest /\
    ParkedPlanLinks /\ InitValidator /\ ParkedNormalize /\ ParkedForm /\
    ParkedFreeCheck /\ ParkedCategorize /\ ParkedSearch /\ ParkedCapture /\
    ParkedCalendar /\ ParkedWaits /\ ParkedStage2Dl /\ ParkedMapField

SpecValidator == InitSpecValidator /\ [][NextValidator]_vars

InitSpecNormalize ==
    ParkedEarly /\ ParkedRegistry /\ ParkedPool /\ ParkedHarvest /\
    ParkedPlanLinks /\ ParkedValidator /\ InitNormalize /\ ParkedForm /\
    ParkedFreeCheck /\ ParkedCategorize /\ ParkedSearch /\ ParkedCapture /\
    ParkedCalendar /\ ParkedWaits /\ ParkedStage2Dl /\ ParkedMapField

SpecNormalize == InitSpecNormalize /\ [][NextNormalize]_vars

InitSpecForm ==
    ParkedEarly /\ ParkedRegistry /\ ParkedPool /\ ParkedHarvest /\
    ParkedPlanLinks /\ ParkedValidator /\ ParkedNormalize /\ InitForm /\
    ParkedFreeCheck /\ ParkedCategorize /\ ParkedSearch /\ ParkedCapture /\
    ParkedCalendar /\ ParkedWaits /\ ParkedStage2Dl /\ ParkedMapField

SpecForm == InitSpecForm /\ [][NextForm]_vars

InitSpecFreeCheck ==
    ParkedEarly /\ ParkedRegistry /\ ParkedPool /\ ParkedHarvest /\
    ParkedPlanLinks /\ ParkedValidator /\ ParkedNormalize /\ ParkedForm /\
    InitFreeCheck /\ ParkedCategorize /\ ParkedSearch /\ ParkedCapture /\
    ParkedCalendar /\ ParkedWaits /\ ParkedStage2Dl /\ ParkedMapField

SpecFreeCheck == InitSpecFreeCheck /\ [][NextFreeCheck]_vars

InitSpecCategorize ==
    ParkedEarly /\ ParkedRegistry /\ ParkedPool /\ ParkedHarvest /\
    ParkedPlanLinks /\ ParkedValidator /\ ParkedNormalize /\ ParkedForm /\
    ParkedFreeCheck /\ InitCategorize /\ ParkedSearch /\ ParkedCapture /\
    ParkedCalendar /\ ParkedWaits /\ ParkedStage2Dl /\ ParkedMapField

SpecCategorize == InitSpecCategorize /\ [][NextCategorize]_vars

InitSpecSearch ==
    ParkedEarly /\ ParkedRegistry /\ ParkedPool /\ ParkedHarvest /\
    ParkedPlanLinks /\ ParkedValidator /\ ParkedNormalize /\ ParkedForm /\
    ParkedFreeCheck /\ ParkedCategorize /\ InitSearch /\ ParkedCapture /\
    ParkedCalendar /\ ParkedWaits /\ ParkedStage2Dl /\ ParkedMapField

SpecSearch == InitSpecSearch /\ [][NextSearch]_vars

InitSpecCapture ==
    ParkedEarly /\ ParkedRegistry /\ ParkedPool /\ ParkedHarvest /\
    ParkedPlanLinks /\ ParkedValidator /\ ParkedNormalize /\ ParkedForm /\
    ParkedFreeCheck /\ ParkedCategorize /\ ParkedSearch /\ InitCapture /\
    ParkedCalendar /\ ParkedWaits /\ ParkedStage2Dl /\ ParkedMapField

SpecCapture == InitSpecCapture /\ [][NextCapture]_vars

InitSpecCalendar ==
    ParkedEarly /\ ParkedRegistry /\ ParkedPool /\ ParkedHarvest /\
    ParkedPlanLinks /\ ParkedValidator /\ ParkedNormalize /\ ParkedForm /\
    ParkedFreeCheck /\ ParkedCategorize /\ ParkedSearch /\ ParkedCapture /\
    InitCalendar /\ ParkedWaits /\ ParkedStage2Dl /\ ParkedMapField

SpecCalendar == InitSpecCalendar /\ [][NextCalendar]_vars

InitSpecWaits ==
    ParkedEarly /\ ParkedRegistry /\ ParkedPool /\ ParkedHarvest /\
    ParkedPlanLinks /\ ParkedValidator /\ ParkedNormalize /\ ParkedForm /\
    ParkedFreeCheck /\ ParkedCategorize /\ ParkedSearch /\ ParkedCapture /\
    ParkedCalendar /\ InitWaits /\ ParkedStage2Dl /\ ParkedMapField

\* The process keeps running: a loop that can take a round takes it.
SpecWaits ==
    InitSpecWaits /\ [][NextWaits]_vars /\ WF_vars(NextWaits)

InitSpecStage2Dl ==
    ParkedEarly /\ ParkedRegistry /\ ParkedPool /\ ParkedHarvest /\
    ParkedPlanLinks /\ ParkedValidator /\ ParkedNormalize /\ ParkedForm /\
    ParkedFreeCheck /\ ParkedCategorize /\ ParkedSearch /\ ParkedCapture /\
    ParkedCalendar /\ ParkedWaits /\ InitStage2Dl /\ ParkedMapField

SpecStage2Dl == InitSpecStage2Dl /\ [][NextStage2Dl]_vars

InitSpecMapField ==
    ParkedEarly /\ ParkedRegistry /\ ParkedPool /\ ParkedHarvest /\
    ParkedPlanLinks /\ ParkedValidator /\ ParkedNormalize /\ ParkedForm /\
    ParkedFreeCheck /\ ParkedCategorize /\ ParkedSearch /\ ParkedCapture /\
    ParkedCalendar /\ ParkedWaits /\ ParkedStage2Dl /\ InitMapField

SpecMapField == InitSpecMapField /\ [][NextMapField]_vars

====
